---- MODULE Spec2Model ----
(***************************************************************************)
(* Scan job orchestrator of ArcLight Scanner (src/arclight.py):            *)
(* run_scan_stream, its target workers, the semaphore that bounds them,    *)
(* the FIFO queue that merges their chunks, the per-job artifacts and the  *)
(* job row.  One behaviour of Spec is one run of run_scan_stream on the    *)
(* asyncio event loop; a step of a worker is the code it runs between two  *)
(* suspension points, or a finer piece of it.  SumSpec applies             *)
(* summarize_from_findings to lists of findings, SchedSpec follows         *)
(* scheduler_loop with the runs it and /scans/run start, BuildSpec builds  *)
(* the commands run_for_target hands to stream_cmd, NormSpec applies       *)
(* normalize_targets to strings, and ClientSpec is Spec with a client of   *)
(* /scans/run that may stop reading the stream.                            *)
(***************************************************************************)
EXTENDS Integers, Sequences, FiniteSets, TLC

\* ---------------------------------------------------------------- bounds
MaxTargets == 2       \* most targets a scan resolves to
MaxConcurrency == 2   \* largest value of the policy's concurrency column
MaxInvocations == 3   \* most tool invocations of a job with several targets
MaxLines == 2         \* most output lines the tools of one job print in total
MaxCrLines == 1       \* only the first MaxCrLines lines of a job may hold a \r
MaxCrTool == 1        \* only the tools up to this index print lines with a \r
MaxFaults == 1        \* most invocations of one job that time out, fail or raise
MaxTime == 2          \* last value of the wall clock
MaxFindings == 3      \* longest list handed to summarize_from_findings
MaxScans == 2         \* most rows of the scans table
MaxNow == 4           \* last tick interval the scheduler is followed to
MaxManual == 1        \* most runs requested over /scans/run
MaxRaw == 4           \* most pieces of a string handed to normalize_targets

\* ------------------------------------------------------------- constants
NULL == 0             \* SQL NULL of a timestamp column; clock values are >= 1;
                      \* also Python's None where an id is expected

\* The scans table: scan 1 exists, any other requested id does not.
ExistingScans == {1}
RequestIds == {1, 2}

\* The tools of run_for_target, by position: 1 nmap, 2 nuclei, 3 nikto,
\* 4 wpscan.
NoTool == 5           \* index after the last tool of the pipeline

\* ----------------------------------------------------------- JSON values
\* One output line, classified by what json.loads makes of it:
\*   json = "text"    not JSON (json.loads raises)
\*   json = "scalar"  JSON, but not an object (number, string, list, null)
\*   json = "object"  a JSON object; info_severity is info.severity and
\*                    severity the top-level severity, "" when absent
\* and by its line ends: eol = "CR" when the text holds a carriage return
\* (a line ending in \r\n, progress output rewritten with \r), else "LF".
NoVal == [json |-> "text", info_severity |-> "", severity |-> "", eol |-> "LF"]
CrText == [json |-> "text", info_severity |-> "", severity |-> "", eol |-> "CR"]
Scalar ==
  [json |-> "scalar", info_severity |-> "", severity |-> "", eol |-> "LF"]
Obj(isev, sev) ==
  [json |-> "object", info_severity |-> isev, severity |-> sev, eol |-> "LF"]

\* The lines a tool prints in the runs explored here.
LineValues == {NoVal, CrText, Scalar, Obj("high", "")}

\* ----------------------------------------------------------------- chunks
Chunk(t, tool, kind, val) == [t |-> t, tool |-> tool, kind |-> kind, val |-> val]
Sentinel == Chunk(0, 0, "None", NoVal)
JobHeader == Chunk(0, 0, "jobheader", NoVal)
ScanNotFound == Chunk(0, 0, "scan_not_found", NoVal)
JobComplete == Chunk(0, 0, "complete", NoVal)
Marker(t) == Chunk(t, 0, "marker", NoVal)

VARIABLES
  policy,        \* the policy row of the scan
  targets,       \* the resolved target list
  jobs,          \* the jobs table, a sequence of rows indexed by job id
  clock,         \* the last wall-clock value read by now_iso
  scan_id,       \* argument of run_scan_stream, NULL before the request
  pc,            \* position of the run_scan_stream generator
  job_id,        \* id of the job row this run inserted, 0 before that
  feed,          \* the chunks yielded to the stream consumer so far
  queue,         \* asyncio.Queue shared by the workers and the merger
  sem,           \* asyncio.Semaphore: free permits and FIFO of waiters
  wst,           \* per target: state of its worker task
  wtool,         \* per target: index of the tool the worker is at
  wph,           \* per target: phase of the current stream_cmd
  finished,      \* sentinels counted by the merger
  produced,      \* per target: the chunks its worker pushed, in order
  log,           \* job.log, a sequence of chunks
  nuclei_jsonl,  \* nuclei.jsonl, one JSON value per line
  wps_json,      \* wpscan.json: <<>> when absent, else <<its content>>,
                 \* the JSON value of an output line of wpscan for target t
  summary,       \* result of summarize_job: <<>> before it is called
  nlines,        \* output lines read so far in this job
  nfaults,       \* invocations that timed out, failed or raised so far
  kills          \* the calls of proc.kill() so far: target, tool, process gone

\* summarize_from_findings called on its own, as __selftest__ calls it
VARIABLES
  findings,      \* the list handed to summarize_from_findings
  result         \* <<>> before the call, then <<the dict it returned>>

sumvars == <<findings, result>>

\* The scheduler and what it works on
VARIABLES
  scans,         \* the scans table: schedule_cron of each row, indexed by id
  CRON_STATE,    \* per scan id the cached next-fire time, NULL: no entry
  disabled,      \* the environment has SCHEDULER_DISABLED set
  sched_pc,      \* scheduler_loop: "boot", "none", "sleep" or "ended"
  spawned,       \* save_only_run tasks created and not yet run, in order
  origin,        \* per job id: "scheduler" or "manual", who started the run
  tick_log,      \* what the last tick did: its now, the scans it examined
  nmanual        \* runs requested over /scans/run so far

schedvars == <<scans, CRON_STATE, disabled, sched_pc, spawned, origin,
               tick_log, nmanual>>

\* The commands run_for_target builds, on their own.  A string is the
\* sequence of its pieces: "http://example.com" is <<"http://", "example.com">>
VARIABLES
  prow,              \* the policy row the commands are built from
  target,            \* the target t of run_for_target
  WPSCAN_API_TOKEN,  \* the environment variable, <<>> when not set or empty
  invocations        \* <<>> before the build, then <<the list of the
                     \* stream_cmd calls of run_for_target, in order>>

buildvars == <<prow, target, WPSCAN_API_TOKEN, invocations>>

\* normalize_targets called on its own, as __selftest__ calls it.  A string
\* is the sequence of its pieces, as above; a separator is one piece.
VARIABLES
  raw,               \* the string handed to normalize_targets
  parsed             \* <<>> before the call, then <<the list it returned>>

normvars == <<raw, parsed>>

vars == <<policy, targets, jobs, clock, scan_id, pc, job_id, feed, queue, sem,
          wst,
          wtool, wph, finished, produced, log, nuclei_jsonl, wps_json,
          summary, nlines, nfaults, kills, sumvars, schedvars, buildvars,
          normvars>>

Max(a, b) == IF a >= b THEN a ELSE b

\* Mutant of concurrency: one permit more than the policy allows.
concurrency_plus == Max(1, policy.concurrency) + 1

\* concurrency = max(1, int(prow["concurrency"] or 1))
concurrency == Max(1, IF policy.concurrency = 0 THEN 1 ELSE policy.concurrency)

Targets == 1..Len(targets)


\* ------------------------------------------------------------ the pipeline
Enabled(k) ==
  CASE k = 1 -> policy.use_nmap
    [] k = 2 -> policy.use_nuclei
    [] k = 3 -> policy.use_nikto
    [] k = 4 -> policy.use_wpscan

\* The tool run_for_target turns to after tool k (k = 0: at its start): the
\* next one the policy enables, in the fixed order of the four if-blocks.
NextTool(k) ==
  LET later == {j \in (k + 1)..4 : Enabled(j)}
  IN IF later = {} THEN NoTool ELSE CHOOSE j \in later : \A m \in later : j <= m

\* json.loads(chunk) succeeds: only an output line can be JSON; the header,
\* "[!] Tool not found", "[!] Timeout reached" and "[!] Failed to run" chunks
\* of stream_cmd never are.
ParsesAsJson(c) == c.kind = "line" /\ c.val.json # "text"

\* ------------------------------------------------------------- summaries
\* Mutant of RISK_WEIGHTS: a high finding weighs 5.
RISK_WEIGHTS_high5 ==
  [critical |-> 9, high |-> 5, medium |-> 3, low |-> 1, info |-> 0]

RISK_WEIGHTS == [critical |-> 9, high |-> 6, medium |-> 3, low |-> 1, info |-> 0]
Severities == DOMAIN RISK_WEIGHTS

\* str.lower on the severity strings that occur here
Lower(s) ==
  CASE s = "HIGH" -> "high"
    [] s = "Critical" -> "critical"
    [] OTHER -> s

\* Mutant of load_jsonl: the first line of the file is skipped.
load_jsonl_skipfirst(file) ==
  IF file = <<>> THEN <<>> ELSE SelectSeq(Tail(file), LAMBDA v : v.json # "text")

\* load_jsonl: every line of the file that json.loads accepts.  A line of
\* nuclei.jsonl is json.dumps of a parsed value, which json.loads gives back.
load_jsonl(file) == SelectSeq(file, LAMBDA v : v.json # "text")

\* Mutant of SevOf: a finding without severity is given no default.
SevOf_nodefault(r) ==
  Lower(IF r.info_severity # "" THEN r.info_severity ELSE r.severity)

\* r.get("info", {}).get("severity") or r.get("severity") or "info", lowered
SevOf(r) ==
  Lower(IF r.info_severity # "" THEN r.info_severity
        ELSE IF r.severity # "" THEN r.severity ELSE "info")

\* r.get raises AttributeError when r is not a dict
SummarizeRaises(nuclei) == \E i \in 1..Len(nuclei) : nuclei[i].json # "object"

RECURSIVE WeightedSum(_, _)
WeightedSum(counts, keys) ==
  IF keys = {} THEN 0
  ELSE LET k == CHOOSE x \in keys : TRUE
       IN counts[k] * RISK_WEIGHTS[k] + WeightedSum(counts, keys \ {k})

summarize_from_findings(nuclei) ==
  LET sev_counts == [k \in Severities |->
                       Cardinality({i \in 1..Len(nuclei) : SevOf(nuclei[i]) = k})]
  IN [nuclei_findings |-> Len(nuclei),
      severity |-> sev_counts,
      risk_score |-> WeightedSum(sev_counts, Severities)]

summarize_job(file) == summarize_from_findings(load_jsonl(file))

\* Mutant of AppendText: the text is written at the start of the file.
AppendText_front(lg, cs) == cs \o lg

\* Mutant of Logged: "Tool not found" is yielded without being written.
Logged_nonotice(cs) ==
  SelectSeq(cs, LAMBDA c : c.kind \notin {"marker", "notfound"})

\* --------------------------------------------------------------- helpers
\* What stream_cmd appends to job.log: every chunk it yields; the target
\* marker is put on the queue by run_for_target and is not logged.
Logged(cs) == SelectSeq(cs, LAMBDA c : c.kind # "marker")

\* Mutant of Locked: a semaphore that never reports itself locked.
Locked_never == FALSE

\* asyncio.Semaphore.locked()
Locked == sem.value = 0 \/ sem.waiters # <<>>

\* asyncio.Semaphore.release() on semaphore s with worker states w: the
\* permit goes to the first waiter that has not been woken yet, otherwise
\* back to the counter.
Sleeping(s, w) == {j \in 1..Len(s.waiters) : w[s.waiters[j]] = "waiting"}
FirstSleeping(s, w) ==
  CHOOSE x \in Sleeping(s, w) : \A y \in Sleeping(s, w) : x <= y
\* Mutant of SemReleased: the permit is never given back to the counter.
SemReleased_lost(s, w) == s
SemReleased(s, w) ==
  IF Sleeping(s, w) = {} THEN [s EXCEPT !.value = @ + 1] ELSE s
WstReleased(s, w) ==
  IF Sleeping(s, w) = {} THEN w
  ELSE [w EXCEPT ![s.waiters[FirstSleeping(s, w)]] = "woken"]

\* Mutant of NotFoundRun: the worker gives up the tools after a missing one.
NotFoundRun_short(i, k, stop) ==
  IF NextTool(k - 1) < stop
  THEN <<Chunk(i, NextTool(k - 1), "header", NoVal),
         Chunk(i, NextTool(k - 1), "notfound", NoVal)>>
  ELSE <<>>

\* Mutant of NotFoundRun: "Tool not found" is yielded twice.
RECURSIVE NotFoundRun_twice(_, _, _)
NotFoundRun_twice(i, k, stop) ==
  IF k >= stop THEN <<>>
  ELSE (IF Enabled(k)
        THEN <<Chunk(i, k, "header", NoVal), Chunk(i, k, "notfound", NoVal),
               Chunk(i, k, "notfound", NoVal)>>
        ELSE <<>>) \o NotFoundRun_twice(i, k + 1, stop)

\* The chunks of the invocations of the enabled tools k..stop-1 when none of
\* their executables is found: header and "Tool not found" for each.
RECURSIVE NotFoundRun(_, _, _)
\* Mutant of NotFoundRun: the later tool is invoked first.
RECURSIVE NotFoundRun_reversed(_, _, _)
NotFoundRun_reversed(i, k, stop) ==
  IF k >= stop THEN <<>>
  ELSE NotFoundRun_reversed(i, k + 1, stop) \o
       (IF Enabled(k)
        THEN <<Chunk(i, k, "header", NoVal), Chunk(i, k, "notfound", NoVal)>>
        ELSE <<>>)

NotFoundRun(i, k, stop) ==
  IF k >= stop THEN <<>>
  ELSE (IF Enabled(k)
        THEN <<Chunk(i, k, "header", NoVal), Chunk(i, k, "notfound", NoVal)>>
        ELSE <<>>) \o NotFoundRun(i, k + 1, stop)

\* ------------------------------------------------------------- scheduler
\* schedule_cron of a scans row: NULL, an expression croniter cannot
\* evaluate, or one that fires at every multiple of p tick intervals.
BadCron == -1
CronPeriods == {1, 2}
CronValues == {NULL, BadCron} \cup CronPeriods
Valid(cron) == cron \in CronPeriods

\* Mutant of croniter_get_next: the fire time at or before now is returned
\* when now is a fire time.
croniter_get_next_incl(cron, now) == ((now + cron - 1) \div cron) * cron

\* croniter(cron, now).get_next(): the first fire time strictly after now
croniter_get_next(cron, now) == ((now \div cron) + 1) * cron

ScanIds == 1..MaxScans
NoTick ==
  [now |-> NULL, examined |-> {}, skipped |-> {}, fired |-> {},
   error |-> FALSE, disabled |-> FALSE]

\* The scheduler at rest, for the runs that are followed without it
NoSched ==
  /\ scans = <<>>
  /\ CRON_STATE = [sid \in ScanIds |-> NULL]
  /\ disabled = FALSE
  /\ sched_pc = "none"
  /\ spawned = <<>>
  /\ origin = <<>>
  /\ tick_log = NoTick
  /\ nmanual = 0

\* Nothing is built.
NoBuild ==
  /\ prow = <<>>
  /\ target = <<>>
  /\ WPSCAN_API_TOKEN = <<>>
  /\ invocations = <<>>

\* Nothing is normalized.
NoNorm ==
  /\ raw = <<>>
  /\ parsed = <<>>

\* ------------------------------------------------------------------ Init
Init ==
  /\ policy \in [use_nmap : BOOLEAN, use_nuclei : BOOLEAN, use_nikto : BOOLEAN,
                 use_wpscan : BOOLEAN, concurrency : 0..MaxConcurrency]
  /\ targets \in {[i \in 1..m |-> i] : m \in 0..MaxTargets}
  /\ Len(targets) > 1 =>
       Len(targets) * Cardinality({k \in 1..4 : Enabled(k)}) <= MaxInvocations
  /\ jobs = <<>>
  /\ clock = 1
  /\ scan_id = NULL
  /\ pc = "idle"
  /\ job_id = 0
  /\ feed = <<>>
  /\ queue = <<>>
  /\ sem = [value |-> 0, waiters |-> <<>>]
  /\ wst = [i \in Targets |-> "none"]
  /\ wtool = [i \in Targets |-> 0]
  /\ wph = [i \in Targets |-> "begin"]
  /\ finished = 0
  /\ produced = [i \in Targets |-> <<>>]
  /\ log = <<>>
  /\ nuclei_jsonl = <<>>
  /\ wps_json = <<>>
  /\ summary = <<>>
  /\ nlines = 0
  /\ nfaults = 0
  /\ kills = <<>>
  /\ findings = <<>>
  /\ result = <<>>
  /\ NoSched
  /\ NoBuild
  /\ NoNorm

\* ------------------------------------------------------- run_scan_stream
\* Mutant of InsertJob: the row is created in a third status.
InsertJob_pending(js, scan, now) ==
  Append(js, [scan_id |-> scan, status |-> "pending", started_at |-> now,
              finished_at |-> NULL, summary |-> <<>>])

\* INSERT INTO jobs(scan_id,status,started_at): finished_at is NULL and
\* summary the column default '' (the empty sequence here).
InsertJob(js, scan, now) ==
  Append(js, [scan_id |-> scan, status |-> "running", started_at |-> now,
              finished_at |-> NULL, summary |-> <<>>])

\* Mutant of UpdateJob: finished_at is left out of the UPDATE.
UpdateJob_nofinish(js, id, now, sm) ==
  [js EXCEPT ![id] = [@ EXCEPT !.status = "finished", !.summary = <<sm>>]]

\* UPDATE jobs SET status=?, finished_at=?, summary=? WHERE id=?
UpdateJob(js, id, now, sm) ==
  [js EXCEPT ![id] = [@ EXCEPT !.status = "finished", !.finished_at = now,
                               !.summary = <<sm>>]]

\* Mutant of LoopContinues: the merger stops one sentinel early.
LoopContinues_early == finished < Len(targets) - 1

\* Mutant of LoopContinues: the merger waits for one sentinel more than
\* there are tasks.
LoopContinues_onemore == finished <= Len(targets)

\* The while condition of the merger: finished < len(tasks)
LoopContinues == finished < Len(targets)

\* Mutant of QueueGet: the newest item is taken instead of the oldest.
QueueGet_lifo(q) == [item |-> q[Len(q)], rest |-> SubSeq(q, 1, Len(q) - 1)]

\* Mutant of QueueGet: the item behind the head is lost with every get.
QueueGet_skip(q) ==
  [item |-> Head(q), rest |-> IF Len(q) >= 2 THEN Tail(Tail(q)) ELSE <<>>]

\* queue.get(): the item at the head of the FIFO and the queue left behind
QueueGet(q) == [item |-> Head(q), rest |-> Tail(q)]

\* Mutant of ScanNotFoundRun: the job row is inserted before the scan row is
\* looked up.
ScanNotFoundRun_insert(id) ==
  /\ pc = "idle"
  /\ id \notin ExistingScans
  /\ scan_id' = id
  /\ jobs' = InsertJob(jobs, id, clock)
  /\ feed' = Append(feed, ScanNotFound)
  /\ pc' = "done"
  /\ UNCHANGED <<sumvars, schedvars, buildvars, normvars, kills, policy,
                 targets, clock, job_id, queue, sem, wst, wtool, wph, finished,
                 produced, log, nuclei_jsonl, wps_json, summary, nlines,
                 nfaults>>

\* The scan row is missing: one chunk, then the stream ends.
ScanNotFoundRun(id) ==
  /\ pc = "idle"
  /\ id \notin ExistingScans
  /\ scan_id' = id
  /\ feed' = Append(feed, ScanNotFound)
  /\ pc' = "done"
  /\ UNCHANGED <<sumvars, schedvars, buildvars, normvars, kills, policy,
                 targets, jobs, clock, job_id, queue, sem, wst, wtool, wph,
                 finished, produced, log, nuclei_jsonl, wps_json, summary,
                 nlines, nfaults>>

\* Mutant of StartScan: the header is yielded before the job row is inserted.
StartScan_headerfirst(id) ==
  /\ pc = "idle"
  /\ id \in ExistingScans
  /\ feed = <<>>
  /\ feed' = Append(feed, JobHeader)
  /\ scan_id' = id
  /\ UNCHANGED <<sumvars, schedvars, buildvars, normvars, kills, policy,
                 targets, clock, queue, sem, wst, wtool, wph, finished,
                 produced, nuclei_jsonl, wps_json, summary, nlines, nfaults,
                 jobs, job_id, log, pc>>

\* INSERT the job row, write the header to job.log, yield the header.
StartScan(id) ==
  /\ pc = "idle"
  /\ id \in ExistingScans
  /\ jobs' = InsertJob(jobs, id, clock)
  /\ job_id' = Len(jobs) + 1
  /\ log' = <<JobHeader>>
  /\ feed' = Append(feed, JobHeader)
  /\ scan_id' = id
  /\ pc' = "started"
  /\ UNCHANGED <<sumvars, schedvars, buildvars, normvars, kills, policy,
                 targets, clock, queue, sem, wst, wtool, wph, finished,
                 produced, nuclei_jsonl, wps_json, summary, nlines, nfaults>>

\* Create the queue, the semaphore and one worker task per target.
SpawnWorkers ==
  /\ pc = "started"
  /\ queue' = <<>>
  /\ sem' = [value |-> concurrency, waiters |-> <<>>]
  /\ wst' = [i \in Targets |-> "created"]
  /\ finished' = 0
  /\ pc' = "merging"
  /\ UNCHANGED <<sumvars, schedvars, buildvars, normvars, kills, scan_id,
                 policy, targets, jobs, clock, job_id, feed, wtool, wph,
                 produced, log, nuclei_jsonl, wps_json, summary, nlines,
                 nfaults>>

\* Path.read_text opens the file in text mode with universal newlines:
\* every \r\n and every \r of the file is returned as \n.
read_text(lg) == [p \in DOMAIN lg |-> [lg[p] EXCEPT !.val.eol = "LF"]]

\* logfile.write_text(logfile.read_text() + text): job.log after the chunks
\* cs were written to it by reading the whole file and writing it anew.
\* The read and the write are one step of the event loop.
WriteText(lg, cs) == read_text(lg) \o cs

\* with logfile.open("a") as f: f.write(text)
AppendText(lg, cs) == lg \o cs

\* ---------------------------------------------------------------- worker
\* A worker runs on the event loop from one suspension point to the next.
\* It is suspended while it waits for a permit, while a subprocess is being
\* started or read (phase "read") and in proc.wait() after a timeout (phase
\* "wait"); queue.put on the unbounded queue, a yield of stream_cmd, which()
\* and the release of the semaphore do not suspend.
\*
\* RunOn(i, k, pre, s, w, f): worker i, holding a permit, has put the chunks
\* pre in this step and goes on with the tools from k on.  Tools whose
\* executable is missing are passed at once; the step ends
\*   - at the first tool `stop` whose executable is found, suspended in the
\*     start of its subprocess after its header, or
\*   - in worker's finally, after the last tool or when stream_cmd of tool
\*     `stop` raises before its try block (job.log cannot be written): the
\*     sentinel is put and the permit released.
\* s and w are the semaphore and the worker states the step has so far, f the
\* faults it has counted.  job.log is read and written anew for a header and
\* for "Tool not found", and appended to for the failure text in pre.
RunOn(i, k, pre, s, w, f) ==
  \E stop \in {j \in k..4 : Enabled(j)} \cup {NoTool}, raises \in BOOLEAN :
    /\ raises => stop # NoTool /\ nfaults + f < MaxFaults
    /\ LET cs == pre \o NotFoundRun(i, k, stop)
       IN IF stop # NoTool /\ ~raises
          THEN LET all == Append(cs, Chunk(i, stop, "header", NoVal))
               IN /\ queue' = queue \o all
                  /\ produced' = [produced EXCEPT ![i] = @ \o all]
                  /\ log' = WriteText(log, Logged(all))
                  /\ wtool' = [wtool EXCEPT ![i] = stop]
                  /\ wph' = [wph EXCEPT ![i] = "read"]
                  /\ sem' = s
                  /\ wst' = [w EXCEPT ![i] = "running"]
                  /\ nfaults' = nfaults + f
          ELSE /\ queue' = Append(queue \o cs, Sentinel)
               /\ produced' = [produced EXCEPT ![i] = @ \o cs]
               /\ log' = IF cs = pre THEN AppendText(log, Logged(cs))
                          ELSE WriteText(log, Logged(cs))
               /\ wtool' = [wtool EXCEPT ![i] = NoTool]
               /\ wph' = [wph EXCEPT ![i] = IF raises THEN "raised" ELSE "end"]
               /\ sem' = SemReleased(s, [w EXCEPT ![i] = "done"])
               /\ wst' = WstReleased(s, [w EXCEPT ![i] = "done"])
               /\ nfaults' = nfaults + f + (IF raises THEN 1 ELSE 0)

\* First run of the task of target i (tasks start in creation order):
\* "async with sem" takes a permit at once when the semaphore is not locked
\* and run_for_target starts with the target marker; otherwise the task
\* joins the waiters.
WorkerStart(i) ==
  /\ pc \in {"merging", "cancelled"}
  /\ wst[i] = "created"
  /\ \A j \in 1..(i - 1) : wst[j] # "created"
  /\ IF ~Locked
     THEN RunOn(i, 1, <<Marker(i)>>, [sem EXCEPT !.value = @ - 1], wst, 0)
     ELSE /\ sem' = [sem EXCEPT !.waiters = Append(@, i)]
          /\ wst' = [wst EXCEPT ![i] = "waiting"]
          /\ UNCHANGED <<wtool, wph, queue, produced, log, nfaults>>
  /\ UNCHANGED <<sumvars, schedvars, buildvars, normvars, kills, scan_id,
                 policy, targets, jobs, clock, pc, job_id, feed, finished,
                 nuclei_jsonl, wps_json, summary, nlines>>

\* A woken waiter resumes: it leaves the waiters, holds the permit that
\* release() handed to it and starts run_for_target.
WorkerResume(i) ==
  /\ wst[i] = "woken"
  /\ RunOn(i, 1, <<Marker(i)>>,
           [sem EXCEPT !.waiters = SelectSeq(@, LAMBDA j : j # i)], wst, 0)
  /\ UNCHANGED <<sumvars, schedvars, buildvars, normvars, kills, scan_id,
                 policy, targets, jobs, clock, pc, job_id, feed, finished,
                 nuclei_jsonl, wps_json, summary, nlines>>

Reading(i) == wst[i] = "running" /\ wtool[i] \in 1..4 /\ wph[i] = "read"

\* One output line is read, logged and yielded; run_for_target parses it for
\* nuclei (appending to nuclei.jsonl) and wpscan (rewriting wpscan.json) and
\* puts it on the queue.
ReadLine(i, v) ==
  /\ Reading(i)
  /\ nlines < MaxLines
  /\ v = CrText => nlines < MaxCrLines /\ wtool[i] <= MaxCrTool
  /\ nlines' = nlines + 1
  /\ LET c == Chunk(i, wtool[i], "line", v)
     IN /\ log' = AppendText(log, <<c>>)
        /\ nuclei_jsonl' = IF wtool[i] = 2 /\ ParsesAsJson(c)
                           THEN Append(nuclei_jsonl, c.val) ELSE nuclei_jsonl
        /\ wps_json' = IF wtool[i] = 4 /\ ParsesAsJson(c)
                       THEN <<[t |-> i, val |-> c.val]>> ELSE wps_json
        /\ queue' = Append(queue, c)
        /\ produced' = [produced EXCEPT ![i] = Append(@, c)]
  /\ UNCHANGED <<sumvars, schedvars, buildvars, normvars, kills, scan_id,
                 policy, targets, jobs, clock, pc, job_id, feed, sem, wst,
                 wtool, wph, finished, summary, nfaults>>

\* End of output: the invocation ends without a chunk and, once proc.wait()
\* returns, the worker goes on with the next tool.
ReadEOF(i) ==
  /\ Reading(i)
  /\ RunOn(i, wtool[i] + 1, <<>>, sem, wst, 0)
  /\ UNCHANGED <<sumvars, schedvars, buildvars, normvars, kills, scan_id,
                 policy, targets, jobs, clock, pc, job_id, feed, finished,
                 nuclei_jsonl, wps_json, summary, nlines>>

\* Mutant of ReadTimeout: every subprocess that is being read is killed.
ReadTimeout_killall(i) ==
  /\ Reading(i)
  /\ nfaults < MaxFaults
  /\ nfaults' = nfaults + 1
  /\ kills' = kills \o [j \in 1..Len(targets) |->
                          [t |-> j, tool |-> wtool[j], gone |-> ~Reading(j)]]
  /\ LET c == Chunk(i, wtool[i], "timeout", NoVal)
     IN /\ log' = AppendText(log, <<c>>)
        /\ queue' = Append(queue, c)
        /\ produced' = [produced EXCEPT ![i] = Append(@, c)]
  /\ wph' = [wph EXCEPT ![i] = "wait"]
  /\ UNCHANGED <<sumvars, schedvars, buildvars, normvars, policy, targets,
                 jobs, clock, scan_id, pc, job_id, feed, sem, wst, wtool,
                 finished, nuclei_jsonl, wps_json, summary, nlines>>

\* readline timed out: the notice is logged and yielded and proc.kill() is
\* called, which raises ProcessLookupError, suppressed, when the process is
\* already gone; the worker is suspended in proc.wait().
ReadTimeout(i) ==
  /\ Reading(i)
  /\ nfaults < MaxFaults
  /\ nfaults' = nfaults + 1
  /\ \E gone \in BOOLEAN :
       kills' = Append(kills, [t |-> i, tool |-> wtool[i], gone |-> gone])
  /\ LET c == Chunk(i, wtool[i], "timeout", NoVal)
     IN /\ log' = AppendText(log, <<c>>)
        /\ queue' = Append(queue, c)
        /\ produced' = [produced EXCEPT ![i] = Append(@, c)]
  /\ wph' = [wph EXCEPT ![i] = "wait"]
  /\ UNCHANGED <<sumvars, schedvars, buildvars, normvars, policy, targets,
                 jobs, clock, scan_id, pc, job_id, feed, sem, wst, wtool,
                 finished, nuclei_jsonl, wps_json, summary, nlines>>

\* proc.wait() returns after a timeout: the invocation has ended, the worker
\* goes on with the next tool.
ProcWaitDone(i) ==
  /\ wst[i] = "running" /\ wtool[i] \in 1..4 /\ wph[i] = "wait"
  /\ RunOn(i, wtool[i] + 1, <<>>, sem, wst, 0)
  /\ UNCHANGED <<sumvars, schedvars, buildvars, normvars, kills, scan_id,
                 policy, targets, jobs, clock, pc, job_id, feed, finished,
                 nuclei_jsonl, wps_json, summary, nlines>>

\* Starting or reading the subprocess raised: "[!] Failed to run" is logged
\* and yielded, the invocation ends and the worker goes on with the next tool.
RunFailed(i) ==
  /\ Reading(i)
  /\ nfaults < MaxFaults
  /\ RunOn(i, wtool[i] + 1, <<Chunk(i, wtool[i], "failed", NoVal)>>, sem, wst, 1)
  /\ UNCHANGED <<sumvars, schedvars, buildvars, normvars, kills, scan_id,
                 policy, targets, jobs, clock, pc, job_id, feed, finished,
                 nuclei_jsonl, wps_json, summary, nlines>>

\* ---------------------------------------------------------------- merger
\* One turn of the while loop: take the head of the queue, count a sentinel
\* or yield the chunk.
MergerGet ==
  /\ pc = "merging"
  /\ LoopContinues
  /\ queue # <<>>
  /\ queue' = QueueGet(queue).rest
  /\ IF QueueGet(queue).item = Sentinel
     THEN finished' = finished + 1 /\ feed' = feed
     ELSE finished' = finished /\ feed' = Append(feed, QueueGet(queue).item)
  /\ UNCHANGED <<sumvars, schedvars, buildvars, normvars, kills, scan_id,
                 policy, targets, jobs, clock, pc, job_id, sem, wst, wtool,
                 wph, produced, log, nuclei_jsonl, wps_json, summary, nlines,
                 nfaults>>

\* finalize: summarize_job, then the UPDATE of the job row.  When
\* summarize_from_findings raises, the generator ends with that exception
\* and the row is left as it is.
Finalize ==
  /\ pc = "merging"
  /\ ~LoopContinues
  /\ IF SummarizeRaises(load_jsonl(nuclei_jsonl))
     THEN /\ pc' = "raised"
          /\ UNCHANGED <<jobs, clock, summary>>
     ELSE /\ summary' = <<summarize_job(nuclei_jsonl)>>
          /\ \E now \in clock..MaxTime :
               /\ clock' = now
               /\ jobs' = UpdateJob(jobs, job_id, now, summarize_job(nuclei_jsonl))
          /\ pc' = "finalized"
  /\ UNCHANGED <<sumvars, schedvars, buildvars, normvars, kills, scan_id,
                 policy, targets, job_id, feed, queue, sem, wst, wtool, wph,
                 finished, produced, log, nuclei_jsonl, wps_json, nlines,
                 nfaults>>

\* The completion chunk is yielded; the stream ends after it.
EmitComplete ==
  /\ pc = "finalized"
  /\ feed' = Append(feed, JobComplete)
  /\ pc' = "done"
  /\ UNCHANGED <<sumvars, schedvars, buildvars, normvars, kills, scan_id,
                 policy, targets, jobs, clock, job_id, queue, sem, wst, wtool,
                 wph, finished, produced, log, nuclei_jsonl, wps_json, summary,
                 nlines, nfaults>>

\* ------------------------------------------------------------------ Next
Next ==
  \/ \E s \in RequestIds : ScanNotFoundRun(s)
  \/ \E s \in RequestIds : StartScan(s)
  \/ SpawnWorkers
  \/ \E i \in Targets : WorkerStart(i)
  \/ \E i \in Targets : WorkerResume(i)
  \/ \E i \in Targets, v \in LineValues : ReadLine(i, v)
  \/ \E i \in Targets : ReadEOF(i)
  \/ \E i \in Targets : ReadTimeout(i)
  \/ \E i \in Targets : ProcWaitDone(i)
  \/ \E i \in Targets : RunFailed(i)
  \/ MergerGet
  \/ Finalize
  \/ EmitComplete

Spec == Init /\ [][Next]_vars


\* The stream is consumed and every invocation ends: each step of the merger
\* is taken when it stays possible, each task is run by the event loop, and
\* a subprocess that is read reaches its end of output unless it times out
\* or fails first.
Fairness ==
  /\ WF_vars(SpawnWorkers)
  /\ WF_vars(MergerGet)
  /\ WF_vars(Finalize)
  /\ WF_vars(EmitComplete)
  /\ \A i \in 1..MaxTargets :
       /\ WF_vars(i \in Targets /\ WorkerStart(i))
       /\ WF_vars(i \in Targets /\ WorkerResume(i))
       /\ WF_vars(i \in Targets /\ ReadEOF(i))
       /\ WF_vars(i \in Targets /\ ProcWaitDone(i))

FairSpec == Spec /\ Fairness

\* ------------------------------------------- a client that stops reading
\* The generator is suspended at a yield or in queue.get() while it is
\* iterated by StreamingResponse of /scans/run.  When the client goes away
\* the response task is cancelled: the generator is left at its yield, or
\* CancelledError is raised in it at queue.get(), and no line after that
\* point of run_scan_stream runs.  The tasks of the workers are tasks of
\* their own and are not touched.  Between the last sentinel, finalize and
\* the completion chunk there is no suspension point.

\* Mutant of Disconnect: the workers are cancelled with the stream.
Disconnect_cancels ==
  /\ \/ pc = "started"
     \/ pc = "merging" /\ LoopContinues
     \/ pc = "finalized"
  /\ pc' = "cancelled"
  /\ wst' = [i \in Targets |-> "done"]
  /\ UNCHANGED <<sumvars, schedvars, buildvars, normvars, kills, scan_id,
                 policy, targets, jobs, clock, job_id, feed, queue, sem,
                 wtool, wph, finished, produced, log, nuclei_jsonl, wps_json,
                 summary, nlines, nfaults>>

Disconnect ==
  /\ \/ pc = "started"
     \/ pc = "merging" /\ LoopContinues
     \/ pc = "finalized"
  /\ pc' = "cancelled"
  /\ UNCHANGED <<sumvars, schedvars, buildvars, normvars, kills, scan_id,
                 policy, targets, jobs, clock, job_id, feed, queue, sem, wst,
                 wtool, wph, finished, produced, log, nuclei_jsonl, wps_json,
                 summary, nlines, nfaults>>

ClientNext ==
  \/ Next
  \/ Disconnect

ClientSpec == Init /\ [][ClientNext]_vars

\* ------------------------------------- summarize_from_findings on its own
\* No run of run_scan_stream is under way: its variables rest at their
\* values before a run, with a policy that enables no tool and no target.
NoRun ==
  /\ policy = [use_nmap |-> FALSE, use_nuclei |-> FALSE, use_nikto |-> FALSE,
               use_wpscan |-> FALSE, concurrency |-> 1]
  /\ targets = <<>>
  /\ scan_id = NULL
  /\ pc = "idle"
  /\ job_id = 0
  /\ feed = <<>>
  /\ queue = <<>>
  /\ sem = [value |-> 0, waiters |-> <<>>]
  /\ wst = <<>>
  /\ wtool = <<>>
  /\ wph = <<>>
  /\ finished = 0
  /\ produced = <<>>
  /\ log = <<>>
  /\ nuclei_jsonl = <<>>
  /\ wps_json = <<>>
  /\ summary = <<>>
  /\ nlines = 0
  /\ nfaults = 0
  /\ kills = <<>>

runvars == <<policy, targets, scan_id, pc, job_id, feed, queue, sem, wst,
             wtool, wph,
             finished, produced, log, nuclei_jsonl, wps_json, summary,
             nlines, nfaults, kills>>

\* The findings a list is made of: objects whose severity is under info, at
\* the top level or absent, in either case of letters, known or not.
FindingValues ==
  {Obj("critical", ""), Obj("HIGH", ""), Obj("", "medium"), Obj("low", "info"),
   Obj("info", ""), Obj("", ""), Obj("unknown", "")}

FindingLists ==
  UNION {[1..n -> FindingValues] : n \in 0..MaxFindings}

SumInit ==
  /\ findings \in FindingLists
  /\ result = <<>>
  /\ jobs = <<>>
  /\ clock = 1
  /\ NoRun
  /\ NoSched
  /\ NoBuild
  /\ NoNorm

\* The call summarize_from_findings(findings)
Summarize ==
  /\ result = <<>>
  /\ result' = <<summarize_from_findings(findings)>>
  /\ UNCHANGED <<findings, jobs, clock, runvars, schedvars, buildvars,
                 normvars>>

SumNext == Summarize

SumSpec == SumInit /\ [][SumNext]_vars

\* -------------------------------------------------------- scheduler_loop
\* The scheduler is followed with runs of run_scan_stream reduced to their
\* two writes of the jobs table: the INSERT at the first run of the task and
\* the UPDATE of finalize.  Time is counted in tick intervals and passes in
\* asyncio.sleep(interval); now is the clock after the sleep.
NoFailure == 0        \* outcome of a tick: no statement of it raises
ListFails == -1       \* outcome of a tick: the SELECT on scans raises
TickOutcomes == {NoFailure, ListFails} \cup ScanIds

\* Mutant of HasRunning: a Finished job of the scan counts as well.
HasRunning_ever(js, sid) == \E j \in DOMAIN js : js[j].scan_id = sid

\* SELECT 1 FROM jobs WHERE scan_id=? AND status='running' LIMIT 1
HasRunning(js, sid) ==
  \E j \in DOMAIN js : js[j].scan_id = sid /\ js[j].status = "running"

\* Mutant of Advance: the cache is never written.
Advance_nowrite(cs, sid, cron, now) == cs

\* CRON_STATE[sid] = croniter(cron, now).get_next(), under
\* contextlib.suppress(Exception): no write when croniter raises.
Advance(cs, sid, cron, now) ==
  IF Valid(cron) THEN [cs EXCEPT ![sid] = croniter_get_next(cron, now)] ELSE cs

\* Mutant of SkipAdvance: the cache is left as it is when a fire is skipped.
SkipAdvance_stay(cs, sid, cron, now) == cs

\* The write of the cache on the path that skips the fire
SkipAdvance(cs, sid, cron, now) == Advance(cs, sid, cron, now)

\* Mutant of TickRows: after the query of scan k raised, the loop goes on
\* with the rows behind it.
RECURSIVE TickRows_goeson(_, _, _, _, _, _)
TickRows_goeson(k, cs, sp, lg, now, f) ==
  IF k > Len(scans) THEN [cs |-> cs, sp |-> sp, lg |-> lg, error |-> FALSE]
  ELSE IF scans[k] = NULL THEN TickRows_goeson(k + 1, cs, sp, lg, now, f)
  ELSE
    LET cron == scans[k]
        cs1 == IF cs[k] = NULL THEN Advance(cs, k, cron, now) ELSE cs
        due == cs1[k]
        ex == [lg EXCEPT !.examined = @ \cup {k}]
    IN IF due = NULL \/ due > now
       THEN TickRows_goeson(k + 1, cs1, sp, ex, now, f)
       ELSE IF f = k
       THEN [TickRows_goeson(k + 1, cs1, sp, lg, now, f) EXCEPT !.error = TRUE]
       ELSE IF HasRunning(jobs, k)
       THEN TickRows_goeson(k + 1, SkipAdvance(cs1, k, cron, now), sp,
                            [ex EXCEPT !.skipped = @ \cup {k}], now, f)
       ELSE TickRows_goeson(k + 1, Advance(cs1, k, cron, now), Append(sp, k),
                            [ex EXCEPT !.fired = @ \cup {k}], now, f)

\* The for loop of a tick over the rows of scans that carry a cron
\* expression, from row k on, in the order of their ids: cs is the cache,
\* sp the tasks created so far, lg the scans examined to the end, skipped
\* and fired so far.  With f = k the query for a Running job of scan k
\* raises and the tick ends there.
RECURSIVE TickRows(_, _, _, _, _, _)
TickRows(k, cs, sp, lg, now, f) ==
  IF k > Len(scans) THEN [cs |-> cs, sp |-> sp, lg |-> lg, error |-> FALSE]
  ELSE IF scans[k] = NULL THEN TickRows(k + 1, cs, sp, lg, now, f)
  ELSE
    LET cron == scans[k]
        cs1 == IF cs[k] = NULL THEN Advance(cs, k, cron, now) ELSE cs
        due == cs1[k]
        ex == [lg EXCEPT !.examined = @ \cup {k}]
    IN IF due = NULL \/ due > now
       THEN TickRows(k + 1, cs1, sp, ex, now, f)
       ELSE IF f = k
       THEN [cs |-> cs1, sp |-> sp, lg |-> lg, error |-> TRUE]
       ELSE IF HasRunning(jobs, k)
       THEN TickRows(k + 1, SkipAdvance(cs1, k, cron, now), sp,
                     [ex EXCEPT !.skipped = @ \cup {k}], now, f)
       ELSE TickRows(k + 1, Advance(cs1, k, cron, now), Append(sp, k),
                     [ex EXCEPT !.fired = @ \cup {k}], now, f)

NoLog == [examined |-> {}, skipped |-> {}, fired |-> {}]

\* Mutant of AfterError: the exception of a tick ends the loop.
AfterError_ended == "ended"

\* except Exception: print the error; the while loop goes on.
AfterError == "sleep"

\* Mutant of DisabledTick: the flag is read after the scans were processed.
DisabledTick_late(now) ==
  /\ CRON_STATE' = TickRows(1, CRON_STATE, <<>>, NoLog, now, NoFailure).cs
  /\ spawned' = TickRows(1, CRON_STATE, <<>>, NoLog, now, NoFailure).sp
  /\ tick_log' = [NoTick EXCEPT !.disabled = TRUE]
  /\ sched_pc' = "sleep"

\* A tick with SCHEDULER_DISABLED set: continue, back to the sleep.
DisabledTick(now) ==
  /\ tick_log' = [NoTick EXCEPT !.disabled = TRUE]
  /\ UNCHANGED <<CRON_STATE, spawned, sched_pc>>

SchedInit ==
  /\ scans \in UNION {[1..n -> CronValues] : n \in 0..MaxScans}
  /\ CRON_STATE = [sid \in ScanIds |-> NULL]
  /\ disabled \in BOOLEAN
  /\ sched_pc = "boot"
  /\ spawned = <<>>
  /\ origin = <<>>
  /\ tick_log = NoTick
  /\ nmanual = 0
  /\ jobs = <<>>
  /\ clock = 1
  /\ findings = <<>>
  /\ result = <<>>
  /\ NoRun
  /\ NoBuild
  /\ NoNorm

\* startup: the loop task is created unless SCHEDULER_DISABLED is set.
on_startup ==
  /\ sched_pc = "boot"
  /\ sched_pc' = IF disabled THEN "none" ELSE "sleep"
  /\ UNCHANGED <<scans, CRON_STATE, disabled, spawned, origin, tick_log,
                 nmanual, jobs, clock, sumvars, runvars, buildvars, normvars>>

\* The environment variable is set or cleared in the running process.
Setenv ==
  /\ sched_pc # "boot"
  /\ disabled' = ~disabled
  /\ UNCHANGED <<scans, CRON_STATE, sched_pc, spawned, origin, tick_log,
                 nmanual, jobs, clock, sumvars, runvars, buildvars, normvars>>

\* One turn of the while loop of scheduler_loop: the sleep of d intervals,
\* then the tick with outcome f.  No statement of a tick suspends, so a tick
\* is one step; the tasks an earlier tick created have had their first run
\* by then (they were ready before the timer of the sleep ran out).
SchedulerTick(d, f) ==
  /\ sched_pc = "sleep"
  /\ spawned = <<>>
  /\ clock + d <= MaxNow
  /\ clock' = clock + d
  /\ IF disabled
     THEN DisabledTick(clock')
     ELSE IF f = ListFails
     THEN /\ tick_log' = [NoTick EXCEPT !.now = clock', !.error = TRUE]
          /\ sched_pc' = AfterError
          /\ UNCHANGED <<CRON_STATE, spawned>>
     ELSE LET r == TickRows(1, CRON_STATE, <<>>, NoLog, clock', f)
          IN /\ CRON_STATE' = r.cs
             /\ spawned' = r.sp
             /\ tick_log' = [now |-> clock', examined |-> r.lg.examined,
                             skipped |-> r.lg.skipped, fired |-> r.lg.fired,
                             error |-> r.error, disabled |-> FALSE]
             /\ sched_pc' = IF r.error THEN AfterError ELSE "sleep"
  /\ UNCHANGED <<scans, disabled, origin, nmanual, jobs, sumvars, runvars,
                 buildvars, normvars>>

\* Mutant of register_schedule: an entry is written whatever the expression.
register_schedule_always(cs, sid, cron, now) == [cs EXCEPT ![sid] = now + 1]

\* register_schedule: the entry is written at once; a croniter failure is
\* printed and the cache left as it is.
register_schedule(cs, sid, cron, now) ==
  IF Valid(cron) THEN [cs EXCEPT ![sid] = croniter_get_next(cron, now)] ELSE cs

\* POST /scans/add: the row is inserted and, when it has a cron expression,
\* registered.
scans_add(cron) ==
  /\ sched_pc # "boot"
  /\ Len(scans) < MaxScans
  /\ scans' = Append(scans, cron)
  /\ CRON_STATE' = IF cron # NULL
                   THEN register_schedule(CRON_STATE, Len(scans) + 1, cron, clock)
                   ELSE CRON_STATE
  /\ UNCHANGED <<disabled, sched_pc, spawned, origin, tick_log, nmanual, jobs,
                 clock, sumvars, runvars, buildvars, normvars>>

\* First run of the oldest task the tick created: save_only_run enters
\* run_scan_stream, which inserts the job row.
save_only_run ==
  /\ spawned # <<>>
  /\ jobs' = InsertJob(jobs, Head(spawned), clock)
  /\ origin' = Append(origin, "scheduler")
  /\ spawned' = Tail(spawned)
  /\ UNCHANGED <<scans, CRON_STATE, disabled, sched_pc, tick_log, nmanual,
                 clock, sumvars, runvars, buildvars, normvars>>

\* GET /scans/run?id=sid: run_scan_stream is entered for the request and
\* inserts the job row.
scans_run(sid) ==
  /\ sched_pc # "boot"
  /\ sid \in DOMAIN scans
  /\ nmanual < MaxManual
  /\ nmanual' = nmanual + 1
  /\ jobs' = InsertJob(jobs, sid, clock)
  /\ origin' = Append(origin, "manual")
  /\ UNCHANGED <<scans, CRON_STATE, disabled, sched_pc, spawned, tick_log,
                 clock, sumvars, runvars, buildvars, normvars>>

\* finalize of the run of job j: the row becomes Finished.
FinishJob(j) ==
  /\ jobs[j].status = "running"
  /\ jobs' = UpdateJob(jobs, j, clock, summarize_job(<<>>))
  /\ UNCHANGED <<scans, CRON_STATE, disabled, sched_pc, spawned, origin,
                 tick_log, nmanual, clock, sumvars, runvars, buildvars,
                 normvars>>

SchedNext ==
  \/ on_startup
  \/ Setenv
  \/ \E d \in 1..2, f \in TickOutcomes : SchedulerTick(d, f)
  \/ \E cron \in CronValues : scans_add(cron)
  \/ save_only_run
  \/ \E sid \in ScanIds : scans_run(sid)
  \/ \E j \in DOMAIN jobs : FinishJob(j)

SchedSpec == SchedInit /\ [][SchedNext]_vars

\* The timer of the sleep runs out, a created task gets its first run and
\* the startup handler is run.
SchedFairness ==
  /\ WF_vars(on_startup)
  /\ WF_vars(save_only_run)
  /\ WF_vars(\E d \in 1..2, f \in TickOutcomes : SchedulerTick(d, f))

FairSchedSpec == SchedSpec /\ SchedFairness

\* ------------------------------------------- the commands of one target
Str(piece) == <<piece>>

\* str.strip(): blanks at both ends are dropped
RECURSIVE Strip(_)
Strip(str) ==
  IF str # <<>> /\ Head(str) = " " THEN Strip(Tail(str))
  ELSE IF str # <<>> /\ str[Len(str)] = " "
       THEN Strip(SubSeq(str, 1, Len(str) - 1))
       ELSE str

\* str.startswith(piece)
StartsWith(str, piece) == str # <<>> /\ Head(str) = piece

\* Mutant of ensure_url: the scheme is put in front of every target.
ensure_url_always(tg) == <<"http://">> \o tg

ensure_url(tg) ==
  IF StartsWith(tg, "http://") \/ StartsWith(tg, "https://")
  THEN tg
  ELSE <<"http://">> \o tg

\* base64.b64encode(...).decode() of a string
b64encode(str) == <<"base64(">> \o str \o <<")">>

Invocation(title, cmd) == [title |-> title, cmd |-> cmd]

nmap_args(profile) ==
  IF profile = "quick"
  THEN <<Str("-T4"), Str("-F"), Str("-sV"), Str("-Pn")>>
  ELSE IF profile = "full"
       THEN <<Str("-T4"), Str("-p-"), Str("-sV"), Str("-Pn")>>
       ELSE <<Str("-T3"), Str("-sV"), Str("-sC"), Str("--script"),
              Str("vuln"), Str("-Pn")>>

basic_user(p) == Strip(p.http_basic_user)
basic_pass(p) == Strip(p.http_basic_pass)
HasCredentials(p) == basic_user(p) # <<>> \/ basic_pass(p) # <<>>

nuclei_cmd(p, url) ==
  <<Str("nuclei"), Str("-u"), url, Str("-severity"), p.nuclei_sev,
    Str("-jsonl")>>
  \o (IF p.nuclei_rate # NULL
      THEN <<Str("-rl"), Str(ToString(p.nuclei_rate))>> ELSE <<>>)
  \o (IF HasCredentials(p)
      THEN <<Str("-H"),
             <<"Authorization: Basic ">>
               \o b64encode(basic_user(p) \o <<":">> \o basic_pass(p))>>
      ELSE <<>>)

nikto_cmd(p, url) ==
  <<Str("nikto"), Str("-host"), url, Str("-ask"), Str("no")>>
  \o (IF HasCredentials(p)
      THEN <<Str("-id"), basic_user(p) \o <<":">> \o basic_pass(p)>>
      ELSE <<>>)

wps_cmd(url, token) ==
  <<Str("wpscan"), Str("--url"), url, Str("--no-update"), Str("--format"),
    Str("json")>>
  \o (IF token # <<>> THEN <<Str("--api-token"), token>> ELSE <<>>)

\* The stream_cmd calls of run_for_target(tg) under policy row p, in order
Pipeline(p, tg, token) ==
  (IF p.use_nmap
   THEN <<Invocation(<<"Nmap on ">> \o tg,
                     <<Str("nmap")>> \o nmap_args(p.nmap_profile) \o <<tg>>)>>
   ELSE <<>>)
  \o (IF p.use_nuclei
      THEN <<Invocation(<<"Nuclei on ">> \o ensure_url(tg),
                        nuclei_cmd(p, ensure_url(tg)))>>
      ELSE <<>>)
  \o (IF p.use_nikto
      THEN <<Invocation(<<"Nikto on ">> \o ensure_url(tg),
                        nikto_cmd(p, ensure_url(tg)))>>
      ELSE <<>>)
  \o (IF p.use_wpscan
      THEN <<Invocation(<<"WPScan on ">> \o ensure_url(tg),
                        wps_cmd(ensure_url(tg), token))>>
      ELSE <<>>)

\* The policy rows, targets and tokens the commands are built for
PolicyRows ==
  [use_nmap : BOOLEAN, use_nuclei : BOOLEAN, use_nikto : BOOLEAN,
   use_wpscan : BOOLEAN, nmap_profile : {"quick", "full", "vuln"},
   nuclei_sev : {Str("critical,high"), Str("low")},
   nuclei_rate : {NULL, 50},
   http_basic_user : {<<>>, Str(" "), Str("admin")},
   http_basic_pass : {<<>>, Str("secret")}]

BuildTargets ==
  {Str("example.com"), <<"http://", "example.com">>, <<"https://", "site">>,
   Str("10.0.0.5")}

BuildInit ==
  /\ prow \in PolicyRows
  /\ target \in BuildTargets
  /\ WPSCAN_API_TOKEN \in {<<>>, Str("tok")}
  /\ invocations = <<>>
  /\ jobs = <<>>
  /\ clock = 1
  /\ findings = <<>>
  /\ result = <<>>
  /\ NoRun
  /\ NoSched
  /\ NoNorm

\* run_for_target builds the commands of the target
Build ==
  /\ invocations = <<>>
  /\ invocations' = <<Pipeline(prow, target, WPSCAN_API_TOKEN)>>
  /\ UNCHANGED <<prow, target, WPSCAN_API_TOKEN, jobs, clock, sumvars, runvars,
                 schedvars, normvars>>

BuildNext == Build

BuildSpec == BuildInit /\ [][BuildNext]_vars

\* ---------------------------------------------------- normalize_targets
\* The pieces of the strings explored: separators of the split, a quote,
\* schemes, and host pieces by the characters they are made of.
Whitespace == {" ", "\n"}
Separators == Whitespace \cup {",", ";"}
Quotes == {"'"}
Schemes == {"http://", "https://"}
NamePieces ==      \* made of letters, digits, dots and hyphens only
  {"example.com", "1.2.3.4", "a.b", "invalid", "host", "test.com"}
Bracketed == {"[::1]"}        \* an IPv6 address in brackets
V6Bare == {"2001:db8::1"}     \* an IPv6 address without brackets
Ports == {":80"}
OtherPieces == {"a_b"}

\* str.strip() and str.strip(chars): pieces of the set are dropped at both
\* ends
RECURSIVE StripOf(_, _)
StripOf(str, chars) ==
  IF str # <<>> /\ Head(str) \in chars THEN StripOf(Tail(str), chars)
  ELSE IF str # <<>> /\ str[Len(str)] \in chars
       THEN StripOf(SubSeq(str, 1, Len(str) - 1), chars)
       ELSE str

\* re.split(r"[\s,\n\r;]+", str): the items between the runs of separators,
\* empty items at the ends included; cur is the item being read, acc the
\* items read.
RECURSIVE SplitOn(_, _, _)
SplitOn(str, cur, acc) ==
  IF str = <<>> THEN Append(acc, cur)
  ELSE IF Head(str) \in Separators
       THEN IF Len(str) > 1 /\ str[2] \in Separators
            THEN SplitOn(Tail(str), cur, acc)
            ELSE SplitOn(Tail(str), <<>>, Append(acc, cur))
       ELSE SplitOn(Tail(str), Append(cur, Head(str)), acc)

\* TARGET_RE.match(tok): an optional scheme, then a run of name characters
\* or a bracketed IPv6 address (the dotted-quad alternative is a run of name
\* characters), then an optional port, and nothing else.
TARGET_RE(tok) ==
  LET a == IF tok # <<>> /\ Head(tok) \in Schemes THEN Tail(tok) ELSE tok
      b == IF a # <<>> /\ a[Len(a)] \in Ports
           THEN SubSeq(a, 1, Len(a) - 1) ELSE a
  IN /\ b # <<>>
     /\ \/ \A p \in DOMAIN b : b[p] \in NamePieces
        \/ Len(b) = 1 /\ b[1] \in Bracketed

\* The for loop of normalize_targets over the items from k on
RECURSIVE Collect(_, _, _)
Collect(items, k, out) ==
  IF k > Len(items) THEN out
  ELSE LET t == StripOf(StripOf(items[k], Whitespace), Quotes)
       IN IF /\ items[k] # <<>> /\ t # <<>>
             /\ \A q \in DOMAIN out : out[q] # t
             /\ TARGET_RE(t)
          THEN Collect(items, k + 1, Append(out, t))
          ELSE Collect(items, k + 1, out)

normalize_targets(str) ==
  LET out == Collect(SplitOn(StripOf(str, Whitespace), <<>>, <<>>), 1, <<>>)
  IN SubSeq(out, 1, IF Len(out) < 1024 THEN Len(out) ELSE 1024)

\* The inputs of __selftest__ and every string of up to MaxRaw pieces
SelfTestRaw ==
  <<"example.com", ",", " ", "1.2.3.4", ";", " ", "https://", "a.b", "\n",
    "invalid", " ", "host", " ", " ", ",", " ", " ", "2001:db8::1">>
DedupeRaw == <<"test.com", " ", "test.com", " ", " ", "test.com">>
RawPieces ==
  {" ", ",", ";", "'", "http://", "test.com", "a.b", "2001:db8::1", "[::1]",
   ":80", "a_b"}
RawInputs ==
  UNION {[1..n -> RawPieces] : n \in 0..MaxRaw} \cup {SelfTestRaw, DedupeRaw}

NormInit ==
  /\ raw \in RawInputs
  /\ parsed = <<>>
  /\ jobs = <<>>
  /\ clock = 1
  /\ findings = <<>>
  /\ result = <<>>
  /\ NoRun
  /\ NoSched
  /\ NoBuild

\* The call normalize_targets(raw)
Normalize ==
  /\ parsed = <<>>
  /\ parsed' = <<normalize_targets(raw)>>
  /\ UNCHANGED <<raw, jobs, clock, sumvars, runvars, schedvars, buildvars>>

NormNext == Normalize

NormSpec == NormInit /\ [][NormNext]_vars

\* ----------------------------------------------------------------- views
Running == {i \in Targets : wst[i] = "running"}
AllDone == \A i \in Targets : wst[i] = "done"
JobStarted == job_id # 0
JobFinished == JobStarted /\ jobs[job_id].status = "finished"

\* The chunks of target t in a sequence of chunks, in order
OfTarget(cs, t) == SelectSeq(cs, LAMBDA c : c.t = t)

IsPrefix(a, b) == Len(a) <= Len(b) /\ SubSeq(b, 1, Len(a)) = a

\* ---------------------------------------------------------------- claims

\* C1: at every moment at most N target workers, N the clamped concurrency
\* of the policy, are inside run_for_target holding a permit; the permits
\* handed out never exceed N either.
C1_AtMostNWorkers ==
  JobStarted /\ pc # "started" =>
    /\ Cardinality(Running) <= concurrency
    /\ sem.value >= 0
    /\ Cardinality({i \in Targets : wst[i] \in {"running", "woken"}})
         + sem.value = concurrency

\* C1 witness: more targets than permits, every permit in use by a running
\* worker and another worker waiting for one.
C1_Witness ==
  /\ Len(targets) > concurrency
  /\ Cardinality(Running) = concurrency
  /\ \E i \in Targets : wst[i] = "waiting"


\* C2: for a job whose stream is consumed and whose invocations each end,
\* every worker completes, the merger counts all M sentinels and the job
\* reaches Finished.
C2_EveryJobFinishes ==
  (pc = "started") ~>
     (AllDone /\ finished = Len(targets) /\ JobFinished /\ pc = "done")

MergerStopped == JobStarted /\ pc \in {"finalized", "done", "raised"}
SentinelsQueued == Len(SelectSeq(queue, LAMBDA c : c = Sentinel))

\* C3: fan-in completeness.  The chunks of a target that were yielded,
\* followed by those still queued, are exactly the chunks its worker pushed
\* (none lost, none twice); every sentinel pushed is counted or still queued;
\* when the merger has stopped, all M sentinels are counted, every worker is
\* done and the queue is empty; and while the merger still waits although
\* every worker is done, the queue is not empty.
C3_FanInComplete ==
  JobStarted /\ pc # "started" =>
    /\ \A t \in Targets : OfTarget(feed, t) \o OfTarget(queue, t) = produced[t]
    /\ SentinelsQueued + finished = Cardinality({i \in Targets : wst[i] = "done"})
    /\ MergerStopped => queue = <<>> /\ AllDone /\ finished = Len(targets)
    /\ pc = "merging" /\ AllDone /\ LoopContinues => queue # <<>>

\* C3 witness: the merger has stopped after two workers pushed chunks.
C3_Witness ==
  /\ MergerStopped /\ Len(targets) = 2
  /\ \A t \in Targets : Len(OfTarget(feed, t)) >= 2

TerminalKinds == {"notfound", "timeout", "failed"}

\* What a worker pushes, in program order: the marker first and only once,
\* then the tools in pipeline order, each enabled, each starting with its
\* header, and nothing of a tool after its terminal chunk.
ProgramOrder(t, s) ==
  /\ s # <<>> => s[1] = Marker(t)
  /\ \A k \in 2..Len(s) :
       /\ s[k].t = t /\ s[k].tool \in 1..4 /\ Enabled(s[k].tool)
       /\ s[k - 1].tool <= s[k].tool
       /\ (s[k].kind = "header") <=> (s[k - 1].tool < s[k].tool)
       /\ s[k - 1].kind \in TerminalKinds => s[k - 1].tool < s[k].tool

\* C4: per-target ordering.  In the merged feed the chunks of one target are
\* an initial part of what its worker produced, in the order it produced
\* them, and that order is the program order of run_for_target.
C4_PerTargetOrder ==
  JobStarted /\ pc # "started" =>
    \A t \in Targets :
      /\ IsPrefix(OfTarget(feed, t), produced[t])
      /\ ProgramOrder(t, produced[t])

\* C4 witness: the stream has ended and the chunks of two targets
\* interleave in the feed.
C4_Witness ==
  /\ pc = "done"
  /\ \E p, q, r \in 1..Len(feed) :
       p < q /\ q < r /\ feed[p].t = 1 /\ feed[q].t = 2 /\ feed[r].t = 1

\* C5: under concurrency bound 1 the feed is made of contiguous per-target
\* runs in target-list order: no chunk of a later target precedes a chunk of
\* an earlier one.
C5_ContiguousRuns ==
  policy.concurrency <= 1 =>
    \A p, q \in 1..Len(feed) :
      p < q /\ feed[p].t # 0 /\ feed[q].t # 0 => feed[p].t <= feed[q].t

\* C5 witness: two targets with three chunks each under bound 1, stream ended.
C5_Witness ==
  /\ policy.concurrency <= 1 /\ pc = "done" /\ Len(targets) = 2
  /\ \A t \in Targets : Len(OfTarget(feed, t)) = 3

\* C6: no outcome of a tool invocation aborts the job: once the merger has
\* counted every sentinel and left its loop, the job is Finished with a
\* summary and the stream has not ended with an error.
C6_JobSurvivesToolOutcomes ==
  MergerStopped => pc # "raised" /\ JobFinished /\ summary # <<>>

\* C7: job status is a two-state machine.  Every row is Running or Finished;
\* rows are never deleted; a new row is Running; a row changes only once,
\* from Running to Finished.
C7_TwoStateMachine ==
  /\ [](\A j \in DOMAIN jobs : jobs[j].status \in {"running", "finished"})
  /\ [][/\ Len(jobs') >= Len(jobs)
        /\ \A j \in DOMAIN jobs' :
             IF j \in DOMAIN jobs
             THEN \/ jobs'[j] = jobs[j]
                  \/ /\ jobs[j].status = "running"
                     /\ jobs'[j].status = "finished"
             ELSE jobs'[j].status = "running"]_vars

\* C7 witness: a job row that has gone from Running to Finished.
C7_Witness == JobFinished

\* C8: a job has started_at set, and finished_at and summary are both unset
\* exactly when it is Running and both set exactly when it is Finished.
C8_JobFields ==
  \A j \in DOMAIN jobs :
    /\ jobs[j].started_at # NULL
    /\ jobs[j].status = "running" <=>
         (jobs[j].finished_at = NULL /\ jobs[j].summary = <<>>)
    /\ jobs[j].status = "finished" <=>
         (jobs[j].finished_at # NULL /\ jobs[j].summary # <<>>)

\* C8 witness: a row with finished_at and summary set.
C8_Witness ==
  \E j \in DOMAIN jobs : jobs[j].finished_at # NULL /\ jobs[j].summary # <<>>

\* C9: finalization order.  The row is Finished only after all M sentinels
\* were counted and every worker is done; the stored summary is the summary
\* of the findings artifact as it is (nothing is appended after it was
\* computed); the completion chunk occurs only once, as the last chunk of
\* the feed, and only when the row is Finished.
C9_FinalizationOrder ==
  /\ JobFinished =>
       /\ finished = Len(targets) /\ AllDone /\ queue = <<>>
       /\ jobs[job_id].summary = <<summarize_job(nuclei_jsonl)>>
  /\ summary # <<>> => AllDone /\ summary = <<summarize_job(nuclei_jsonl)>>
  /\ \A p \in 1..Len(feed) :
       feed[p] = JobComplete => p = Len(feed) /\ JobFinished
  /\ pc = "done" /\ JobStarted => feed[Len(feed)] = JobComplete

\* C9 witness: the stream of a job with findings of a finished worker has
\* ended with the completion chunk.
C9_Witness ==
  /\ pc = "done" /\ JobStarted /\ Len(targets) = 2
  /\ nuclei_jsonl # <<>> /\ feed[Len(feed)] = JobComplete

\* The output lines of the template scanner that parsed, over all targets
ParsedLines ==
  UNION {{<<t, k>> : k \in {k \in DOMAIN produced[t] :
                              /\ produced[t][k].tool = 2
                              /\ ParsesAsJson(produced[t][k])}} : t \in Targets}

\* C10: the nuclei_findings of a Finished job's summary is the number of
\* output lines that were parsed and appended to nuclei.jsonl in the run.
C10_FindingCount ==
  JobFinished =>
    jobs[job_id].summary[1].nuclei_findings = Cardinality(ParsedLines)

\* C10 witness: a Finished job with one finding from each of two targets.
C10_Witness ==
  /\ JobFinished /\ Len(targets) = 2
  /\ \A t \in Targets : \E p \in ParsedLines : p[1] = t

\* The number of findings of list F whose severity, in lower case, is s
CountOf(F, s) == Cardinality({i \in 1..Len(F) : SevOf(F[i]) = s})

\* C11: for every list of findings, summarize_from_findings returns
\* risk_score = 9*critical + 6*high + 3*medium + 1*low + 0*info over the
\* per-severity numbers of findings and nuclei_findings = the length of the
\* list; for the empty list both are 0.
C11_RiskScore ==
  result # <<>> =>
    /\ result[1].risk_score =
          9 * CountOf(findings, "critical") + 6 * CountOf(findings, "high")
            + 3 * CountOf(findings, "medium") + 1 * CountOf(findings, "low")
            + 0 * CountOf(findings, "info")
    /\ result[1].nuclei_findings = Len(findings)
    /\ findings = <<>> =>
         result[1].risk_score = 0 /\ result[1].nuclei_findings = 0

\* C11 witness: the summary of a critical, a high (in capitals) and a medium
\* finding (severity at the top level) scores 18.
C11_Witness ==
  /\ result # <<>>
  /\ findings = <<Obj("critical", ""), Obj("HIGH", ""), Obj("", "medium")>>
  /\ result[1].risk_score = 18

\* C12: a run for a scan id that does not exist yields exactly one chunk,
\* the explanation, and ends at once: no job row is inserted, job.log (and
\* with it the job directory) is not created, no queue, permit or worker
\* task comes into being; the step that answers the request changes nothing
\* but the stream.
C12_ScanNotFound ==
  /\ [](scan_id # NULL /\ scan_id \notin ExistingScans =>
          /\ feed = <<ScanNotFound>> /\ pc = "done"
          /\ jobs = <<>> /\ job_id = 0 /\ log = <<>>
          /\ queue = <<>> /\ sem.value = 0
          /\ \A i \in Targets : wst[i] = "none" /\ produced[i] = <<>>)
  /\ [][scan_id = NULL /\ scan_id' # NULL /\ scan_id' \notin ExistingScans =>
          UNCHANGED <<policy, targets, jobs, clock, job_id, queue, sem, wst,
                      wtool, wph, finished, produced, log, nuclei_jsonl,
                      wps_json, summary>>]_vars

\* C12 witness: the stream of a run for the missing scan 2 has ended, for a
\* scan definition that would have had two targets to work on.
C12_Witness ==
  /\ scan_id = 2 /\ pc = "done" /\ feed = <<ScanNotFound>>
  /\ Len(targets) = 2

\* A step of the scheduler that is a tick: only the sleep lets time pass.
IsTick == clock' # clock

\* The rows of the jobs table that are Running for scan sid
RunningJobs(sid) ==
  {j \in DOMAIN jobs : jobs[j].scan_id = sid /\ jobs[j].status = "running"}

\* C13: when a tick finds the cached next-fire time of a scan due (<= now)
\* while a job of that scan is Running, it creates no task for the scan and
\* still moves the cached time to a time after now.
C13_SkipWhileRunning ==
  [][\A sid \in ScanIds :
       /\ IsTick /\ sid \in tick_log'.examined
       /\ CRON_STATE[sid] # NULL /\ CRON_STATE[sid] <= clock'
       /\ RunningJobs(sid) # {}
       => /\ \A q \in DOMAIN spawned' : spawned'[q] # sid
          /\ CRON_STATE'[sid] > clock'
          /\ jobs' = jobs]_vars

\* C13 witness: the last tick skipped the fire of a scan whose job is
\* Running and fired another scan.
C13_Witness ==
  /\ tick_log.now = clock
  /\ \E sid \in tick_log.skipped :
       RunningJobs(sid) # {} /\ CRON_STATE[sid] > clock
  /\ tick_log.fired # {}

\* The job rows a step inserts
NewJobs == DOMAIN jobs' \ DOMAIN jobs

\* C14: runs are triggered without overlap.  A job the scheduler started
\* never becomes Running while another job of its scan is Running, and at
\* most one job of a scan is Running at any time, whatever the order of
\* ticks, first runs of the created tasks and runs requested by hand.
C14_NoOverlap ==
  /\ [][\A j \in NewJobs :
          origin'[j] = "scheduler" => RunningJobs(jobs'[j].scan_id) = {}]_vars
  /\ [](\A sid \in ScanIds : Cardinality(RunningJobs(sid)) <= 1)

\* C15: every value a step writes to the next-fire cache, in a tick
\* (initialisation, fire or skip) or in register_schedule, is strictly after
\* the now of that step; after a tick has examined a scan with a valid cron
\* expression its cached time is strictly after the tick's now; and
\* register_schedule writes the entry of a new scan with a valid expression
\* in the step that adds the scan.
C15_NextFireAfterNow ==
  [][/\ \A sid \in ScanIds :
          CRON_STATE'[sid] # CRON_STATE[sid] => CRON_STATE'[sid] > clock'
     /\ IsTick =>
          \A sid \in tick_log'.examined :
            Valid(scans[sid]) => CRON_STATE'[sid] > clock'
     /\ scans' # scans /\ Valid(scans'[Len(scans')]) =>
          /\ CRON_STATE[Len(scans')] = NULL
          /\ CRON_STATE'[Len(scans')] > clock]_vars

\* C15 witness: the last tick fired a scan that runs every second interval
\* and wrote now + 2, after a second scan was registered outside a tick.
C15_Witness ==
  /\ tick_log.now = clock
  /\ \E sid \in tick_log.fired : scans[sid] = 2 /\ CRON_STATE[sid] = clock + 2
  /\ \E sid \in DOMAIN scans :
       sid \notin tick_log.examined /\ CRON_STATE[sid] > clock

\* C16: a tick that finds SCHEDULER_DISABLED set does nothing: it creates
\* no task and leaves the next-fire cache and the jobs table as they are,
\* also for scans whose cached time is due.
C16_DisabledTick ==
  [][IsTick /\ disabled => UNCHANGED <<CRON_STATE, jobs, spawned, origin>>]_vars

\* C16 witness: the last tick found the flag set while the cached time of a
\* scan without a Running job was due.
C16_Witness ==
  /\ tick_log.disabled /\ disabled
  /\ \E sid \in DOMAIN scans :
       /\ CRON_STATE[sid] # NULL /\ CRON_STATE[sid] <= clock
       /\ RunningJobs(sid) = {}

\* C17: the scheduler loop never ends on an error.  Whatever statement of a
\* tick raises (the listing of the scans, the query for a Running job, the
\* computation of a next-fire time), the loop is back at its sleep after the
\* tick, and from every time before the last one followed here a later tick
\* occurs.
C17_LoopNeverEnds ==
  /\ [](sched_pc \in {"boot", "none", "sleep"})
  /\ \A n \in 1..(MaxNow - 1) :
       (sched_pc = "sleep" /\ clock = n) ~> (clock > n)

\* C17 witness: the query for a Running job raised in the last tick, after
\* another scan had been examined, and the loop sleeps again.
C17_Witness ==
  /\ tick_log.error /\ tick_log.examined # {} /\ tick_log.now = clock
  /\ sched_pc = "sleep" /\ clock < MaxNow

\* The chunks of the invocation of tool k in a sequence of chunks of one
\* target, in order
OfTool(cs, k) == SelectSeq(cs, LAMBDA c : c.tool = k)

NotFoundChunk(t, k) == Chunk(t, k, "notfound", NoVal)

\* The invocations that ended with "Tool not found", as <<target, position>>
NotFoundAt ==
  UNION {{<<t, p>> : p \in {q \in DOMAIN produced[t] :
                              produced[t][q].kind = "notfound"}} : t \in Targets}

\* After the chunk at position p of target t, which ends the invocation of
\* tool k, the worker turns to the next enabled tool: the next chunk is the
\* header of that tool; there is none only when the worker is done, after
\* the last enabled tool or because stream_cmd of the next tool raised.
ProceedsAfter(t, p) ==
  LET s == produced[t]
      k == s[p].tool
  IN IF p < Len(s)
     THEN NextTool(k) # NoTool /\ s[p + 1] = Chunk(t, NextTool(k), "header", NoVal)
     ELSE wst[t] = "done" /\ (NextTool(k) = NoTool \/ wph[t] = "raised")

\* No subprocess belongs to an invocation that reported "Tool not found".
NoSubprocessOfMissing ==
  \A t \in Targets :
    wst[t] = "running" /\ wph[t] \in {"read", "wait"} =>
      \A p \in 1..Len(produced[t]) :
        produced[t][p].kind = "notfound" => produced[t][p].tool # wtool[t]

\* C18 as stated: the chunk sequence of an invocation whose executable is
\* missing consists of one chunk, "Tool not found"; no subprocess is started
\* and the pipeline proceeds to the next enabled tool.
C18_OnlyNotFoundChunk ==
  /\ \A x \in NotFoundAt :
       /\ OfTool(produced[x[1]], produced[x[1]][x[2]].tool)
            = <<NotFoundChunk(x[1], produced[x[1]][x[2]].tool)>>
       /\ ProceedsAfter(x[1], x[2])
  /\ NoSubprocessOfMissing

\* C18, amended: the chunk sequence of an invocation whose executable is
\* missing is the invocation header followed by exactly one "Tool not found"
\* chunk, its last; no subprocess is started and the worker proceeds to the
\* next enabled tool of the same target.
C18_HeaderThenNotFound ==
  /\ \A x \in NotFoundAt :
       /\ OfTool(produced[x[1]], produced[x[1]][x[2]].tool)
            = <<Chunk(x[1], produced[x[1]][x[2]].tool, "header", NoVal),
                NotFoundChunk(x[1], produced[x[1]][x[2]].tool)>>
       /\ ProceedsAfter(x[1], x[2])
  /\ NoSubprocessOfMissing

\* C18 witness: nmap is missing for a target and its worker has gone on to
\* wpscan, the next tool the policy enables.
C18_Witness ==
  \E x \in NotFoundAt :
    /\ produced[x[1]][x[2]].tool = 1
    /\ x[2] < Len(produced[x[1]])
    /\ produced[x[1]][x[2] + 1] = Chunk(x[1], 4, "header", NoVal)

TimeoutChunk(t, k) == Chunk(t, k, "timeout", NoVal)

\* The timeout notices of all targets, as <<target, position>>
TimeoutAt ==
  UNION {{<<t, p>> : p \in {q \in DOMAIN produced[t] :
                              produced[t][q].kind = "timeout"}} : t \in Targets}

\* The timeout notice at position p of target t is the last chunk of its
\* invocation: the worker waits for the killed process, or has gone on to
\* the next enabled tool, or is done.
TimeoutIsTerminal(t, p) ==
  LET s == produced[t]
      k == s[p].tool
  IN IF p < Len(s)
     THEN NextTool(k) # NoTool /\ s[p + 1] = Chunk(t, NextTool(k), "header", NoVal)
     ELSE \/ wst[t] = "running" /\ wph[t] = "wait" /\ wtool[t] = k
          \/ wst[t] = "done" /\ (NextTool(k) = NoTool \/ wph[t] = "raised")

\* C19: when the read of the next line times out, the notice is appended to
\* job.log, proc.kill() is called once, for the subprocess of that
\* invocation and for no other (a process that is already gone makes no
\* difference), and the notice is the last chunk of the invocation, after
\* which the worker goes on; the step changes nothing of any other worker,
\* of the semaphore, of the merger or of the job row.
C19_TimeoutEndsInvocation ==
  /\ [](/\ \A x \in TimeoutAt : TimeoutIsTerminal(x[1], x[2])
        /\ Len(kills) = Cardinality(TimeoutAt)
        /\ \A q \in DOMAIN kills :
             \E x \in TimeoutAt :
               x[1] = kills[q].t /\ produced[x[1]][x[2]].tool = kills[q].tool)
  /\ [][kills' # kills =>
          \E i \in Targets :
            /\ Reading(i)
            /\ Len(kills') = Len(kills) + 1
            /\ kills'[Len(kills')].t = i /\ kills'[Len(kills')].tool = wtool[i]
            /\ log' = Append(log, TimeoutChunk(i, wtool[i]))
            /\ produced'[i] = Append(produced[i], TimeoutChunk(i, wtool[i]))
            /\ wst'[i] = "running" /\ wph'[i] = "wait"
            /\ \A j \in Targets \ {i} :
                 /\ wst'[j] = wst[j] /\ wtool'[j] = wtool[j]
                 /\ wph'[j] = wph[j] /\ produced'[j] = produced[j]
            /\ UNCHANGED <<jobs, pc, sem, finished, feed>>]_vars

\* C19 witness: an invocation timed out when its process was already gone
\* and its worker is done, while the worker of the other target still reads
\* the output of its tool.
C19_Witness ==
  /\ kills # <<>> /\ kills[1].gone
  /\ wst[kills[1].t] = "done"
  /\ \E j \in Targets \ {kills[1].t} : Reading(j)

\* The positions of the header of tool k among the chunks of target t: the
\* invocations of tool k for the target
HeadersOf(t, k) ==
  {p \in DOMAIN produced[t] : produced[t][p] = Chunk(t, k, "header", NoVal)}

\* C20: a target worker does not short-circuit.  Whatever the outcome of a
\* tool (end of output, tool missing, timeout, failure reported as a chunk),
\* the chunks of the worker go on with the next tool the policy enables, no
\* enabled tool is invoked twice, and a worker that has ended without an
\* exception has invoked every enabled tool exactly once.
C20_NoShortCircuit ==
  \A t \in Targets :
    /\ \A p \in 1..(Len(produced[t]) - 1) :
         produced[t][p].tool # produced[t][p + 1].tool =>
           produced[t][p + 1].tool = NextTool(produced[t][p].tool)
    /\ \A k \in 1..4 :
         /\ Cardinality(HeadersOf(t, k)) <= 1
         /\ ~Enabled(k) => HeadersOf(t, k) = {}
         /\ wst[t] = "done" /\ wph[t] = "end" /\ Enabled(k) =>
              Cardinality(HeadersOf(t, k)) = 1
    /\ wst[t] = "running" =>
         produced[t][Len(produced[t])].tool = wtool[t]

\* C20 witness: a worker has ended after all four tools, of which one was
\* missing, one printed a line and ended, and one timed out.
C20_Witness ==
  \E t \in Targets :
    /\ wst[t] = "done" /\ wph[t] = "end"
    /\ \A k \in 1..4 : Enabled(k) /\ Cardinality(HeadersOf(t, k)) = 1
    /\ \A kind \in {"notfound", "line", "timeout"} :
         \E p \in DOMAIN produced[t] : produced[t][p].kind = kind

\* The chunks stream_cmd yields: invocation header, output line, "Tool not
\* found", timeout notice, failure text
RunnerKinds == {"header", "line", "notfound", "timeout", "failed"}

RunnerChunks(cs) == SelectSeq(cs, LAMBDA c : c.kind \in RunnerKinds)

\* The last n chunks of cs
LastOf(cs, n) == SubSeq(cs, Len(cs) - n + 1, Len(cs))

\* The chunks stream_cmd has yielded for target t, and those of them that
\* the last step added
Yielded(t) == RunnerChunks(produced[t])
NewlyYielded(t) == LastOf(Yielded(t)', Len(Yielded(t)') - Len(Yielded(t)))

Occurrences(cs, c) == Cardinality({p \in DOMAIN cs : cs[p] = c})

\* C22: job.log is a full transcript of the live stream.  Once the stream of
\* a job has ended, every chunk the consumer has received (job header,
\* target markers, tool chunks, completion chunk) is in job.log, as many
\* times as it was received.
C22_FullTranscript ==
  pc = "done" /\ JobStarted =>
    \A p \in DOMAIN feed : Occurrences(feed, feed[p]) <= Occurrences(log, feed[p])

\* The tools the policy enables, in the order of run_for_target
EnabledTools == SelectSeq(<<1, 2, 3, 4>>, Enabled)

\* The tools invoked for target t, in the order of their invocation headers
InvokedTools(t) ==
  LET h == SelectSeq(produced[t], LAMBDA c : c.kind = "header")
  IN [p \in DOMAIN h |-> h[p].tool]

\* C23: tool order within one target.  The tools invoked for a target are
\* the enabled tools in the order nmap, nuclei, nikto, wpscan, one after
\* another: the invocations so far are an initial part of that list and all
\* of it once the worker has ended without an exception; no chunk of a tool
\* follows a chunk of a later tool, so an invocation starts only when the
\* chunks of the one before have ended; a running worker is in the
\* invocation started last; and the target marker is pushed once, before
\* the first chunk of the first tool.
C23_ToolOrder ==
  \A t \in Targets :
    /\ IsPrefix(InvokedTools(t), EnabledTools)
    /\ wst[t] = "done" /\ wph[t] = "end" => InvokedTools(t) = EnabledTools
    /\ \A p, q \in DOMAIN produced[t] :
         p < q => /\ produced[t][p].tool <= produced[t][q].tool
                  /\ produced[t][q].kind # "marker"
    /\ produced[t] # <<>> => produced[t][1] = Marker(t)
    /\ wst[t] = "running" =>
         wtool[t] = InvokedTools(t)[Len(InvokedTools(t))]

\* C23 witness: with nuclei disabled, a worker has ended after nmap, nikto
\* and wpscan, of which one printed a line before the next was invoked.
C23_Witness ==
  \E t \in Targets :
    /\ wst[t] = "done" /\ wph[t] = "end"
    /\ InvokedTools(t) = <<1, 3, 4>>
    /\ \E p \in 1..(Len(produced[t]) - 1) :
         produced[t][p].kind = "line" /\ produced[t][p + 1].kind = "header"

\* The output lines of tool k for target t that json.loads accepts
JsonLines(t, k) ==
  SelectSeq(produced[t],
            LAMBDA c : c.tool = k /\ c.kind = "line" /\ c.val.json # "text")

\* The targets whose wpscan printed a line that json.loads accepts
ReportedTargets == {t \in Targets : JsonLines(t, 4) # <<>>}

\* C24: the pipelines of the targets of one job do not destroy each other's
\* artifacts.  When all workers have ended, nuclei.jsonl holds every finding
\* each target appended, as many times as it was appended, and wpscan.json
\* holds the wpscan output of every target that produced one.
C24_NoCrossTargetLoss ==
  AllDone /\ JobStarted =>
    /\ \A v \in LineValues :
         Occurrences(nuclei_jsonl, v) =
           Cardinality(UNION {{<<t, p>> : p \in {q \in DOMAIN JsonLines(t, 2) :
                                                   JsonLines(t, 2)[q].val = v}} :
                              t \in Targets})
    /\ \A t \in ReportedTargets : \E p \in DOMAIN wps_json : wps_json[p].t = t

\* C25: appends to job.log are serialized.  Every write to job.log, the
\* read-whole-file-then-rewrite of a header or of "Tool not found"
\* included, leaves what the file held in place and adds whole chunks at
\* its end, so the content of job.log at any time is an initial part of its
\* content at any later time of the job, and no chunk a worker wrote is
\* missing from it.
C25_LogOnlyGrows ==
  /\ [](\A t \in Targets :
          RunnerChunks(OfTarget(log, t)) = RunnerChunks(produced[t]))
  /\ [][JobStarted => IsPrefix(log, log')]_vars

\* C26: log order equals arrival order.  The tool chunks the consumer has
\* received are, in the order of the merged feed, the first tool chunks of
\* job.log read as text, and all of them once the stream has ended: any two
\* tool chunks, of one target or of two, stand in job.log in the order in
\* which they arrived.
C26_LogInArrivalOrder ==
  /\ IsPrefix(read_text(RunnerChunks(feed)), read_text(RunnerChunks(log)))
  /\ pc = "done" /\ JobStarted =>
       read_text(RunnerChunks(feed)) = read_text(RunnerChunks(log))

\* C26 witness: the stream has ended and job.log is not grouped by target:
\* a chunk of target 2 stands between two chunks of target 1.
C26_Witness ==
  /\ pc = "done"
  /\ \E p, q, r \in DOMAIN log :
       p < q /\ q < r /\ log[p].t = 1 /\ log[q].t = 2 /\ log[r].t = 1

\* No task of a target worker has been created
NoWorkers ==
  \A i \in Targets : wst[i] = "none" /\ produced[i] = <<>>

\* C27: start of a run for an existing scan.  The step that yields the
\* first chunk inserts the job row, in status running, and yields the job
\* header, before any worker exists; the job header is the first chunk of
\* the stream and occurs once, so every target marker and tool chunk comes
\* after it; and no worker is created before the header was yielded.
C27_HeaderFirst ==
  /\ [](/\ feed # <<>> /\ scan_id \in ExistingScans =>
             /\ feed[1] = JobHeader /\ Occurrences(feed, JobHeader) = 1
             /\ JobStarted /\ jobs[job_id].scan_id = scan_id
        /\ pc = "started" =>
             feed = <<JobHeader>> /\ jobs[job_id].status = "running" /\ NoWorkers
        /\ ~NoWorkers => feed # <<>>)
  /\ [][feed = <<>> /\ feed' # <<>> /\ scan_id' \in ExistingScans =>
          /\ feed' = <<JobHeader>>
          /\ Len(jobs') = Len(jobs) + 1 /\ job_id' = Len(jobs')
          /\ jobs'[job_id'].status = "running"
          /\ jobs'[job_id'].scan_id = scan_id'
          /\ NoWorkers']_vars

\* C27 witness: the header of a job with two targets has been yielded, its
\* row is running, and no worker has been created yet.
C27_Witness ==
  /\ pc = "started" /\ feed = <<JobHeader>> /\ Len(targets) = 2
  /\ jobs[job_id].status = "running" /\ NoWorkers

\* The policy of the self-test scenario: only nuclei, severity
\* critical,high, no rate limit, no credentials
TemplateScannerOnly ==
  /\ prow.use_nuclei /\ ~prow.use_nmap /\ ~prow.use_nikto /\ ~prow.use_wpscan
  /\ prow.nuclei_sev = <<"critical,high">>
  /\ prow.nuclei_rate = NULL
  /\ prow.http_basic_user = <<>> /\ prow.http_basic_pass = <<>>

\* The URL arguments of the commands built: the argument after -u, -host
\* and --url
UrlArgs ==
  {invocations[1][p].cmd[3] :
     p \in {q \in DOMAIN invocations[1] :
              invocations[1][q].cmd[2] \in {<<"-u">>, <<"-host">>, <<"--url">>}}}

\* C28: the commands of one target.  For the policy with only nuclei,
\* severity critical,high, no rate limit and no credentials and the target
\* example.com there is exactly one invocation: nuclei -u http://example.com
\* -severity critical,high -jsonl, with no -H argument.  For every policy,
\* the URL handed to nuclei, nikto and wpscan is the target itself when it
\* starts with http:// or https://, and http:// followed by the target
\* otherwise.
C28_TemplateScannerCommand ==
  invocations # <<>> =>
    /\ TemplateScannerOnly /\ target = <<"example.com">> =>
         /\ Len(invocations[1]) = 1
         /\ invocations[1][1].cmd =
              <<<<"nuclei">>, <<"-u">>, <<"http://", "example.com">>,
                <<"-severity">>, <<"critical,high">>, <<"-jsonl">>>>
         /\ \A a \in DOMAIN invocations[1][1].cmd :
              invocations[1][1].cmd[a] # <<"-H">>
    /\ \A url \in UrlArgs :
         IF Head(target) \in {"http://", "https://"}
         THEN url = target
         ELSE url = <<"http://">> \o target

\* C28 witness: the commands were built for the self-test scenario.
C28_Witness ==
  /\ invocations # <<>>
  /\ TemplateScannerOnly /\ target = <<"example.com">>
  /\ Len(invocations[1]) = 1

\* C29: handling of a nuclei chunk.  When a worker reads an output line, the
\* line is appended to nuclei.jsonl, as one line, if and only if it is a
\* line of nuclei that parses as one JSON object; a line that does not is
\* not appended and produces no error; and in both cases the line is put on
\* the queue as it was read.
C29_AppendIffObject ==
  [][\A i \in Targets :
       Len(produced'[i]) = Len(produced[i]) + 1 /\ nlines' = nlines + 1 =>
         LET c == produced'[i][Len(produced'[i])]
         IN /\ queue' = Append(queue, c)
            /\ nfaults' = nfaults /\ wst' = wst /\ wph' = wph
            /\ nuclei_jsonl' = IF c.tool = 2 /\ c.val.json = "object"
                               THEN Append(nuclei_jsonl, c.val)
                               ELSE nuclei_jsonl]_vars

\* C30: wpscan.json is written once per invocation, at its end.  A step
\* changes wpscan.json only by ending an invocation of wpscan, whose output
\* it then holds; a step that leaves the worker reading the output of
\* wpscan does not write it.
C30_ReportWrittenAtEnd ==
  [][wps_json' # wps_json =>
       \E i \in Targets :
         /\ Reading(i) /\ wtool[i] = 4
         /\ ~(wst'[i] = "running" /\ wtool'[i] = 4 /\ wph'[i] = "read")
         /\ Len(wps_json') = 1 /\ wps_json'[1].t = i]_vars

\* The cached next-fire time of scan sid is due at the tick that ends at now
Due(sid, now) == CRON_STATE[sid] # NULL /\ CRON_STATE[sid] <= now

\* C31: a due fire starts one run, asynchronously.  A tick that finds the
\* cached next-fire time of a scan due and no job of the scan Running
\* creates exactly one task for the scan, inserts no job row itself, and
\* moves the cached time to the first fire time after its now, however far
\* behind the cached time was; a tick creates tasks for no other scans; and
\* at no time are two tasks of one scan waiting for their first run.
C31_FireOnce ==
  /\ [](\A sid \in ScanIds : Occurrences(spawned, sid) <= 1)
  /\ [][IsTick =>
          /\ jobs' = jobs
          /\ \A sid \in tick_log'.examined :
               Due(sid, clock') /\ RunningJobs(sid) = {} =>
                 /\ Occurrences(spawned', sid) = 1
                 /\ CRON_STATE'[sid] > clock'
                 /\ CRON_STATE'[sid] - scans[sid] <= clock'
                 /\ CRON_STATE'[sid] % scans[sid] = 0
          /\ \A q \in DOMAIN spawned' :
               /\ spawned'[q] \in tick_log'.examined
               /\ Due(spawned'[q], clock') /\ RunningJobs(spawned'[q]) = {}]_vars

\* C31 witness: the last tick created one task for each of two scans, none
\* of which has had its first run: no job row exists yet, and both cached
\* times are after now.
C31_Witness ==
  /\ tick_log.now = clock /\ tick_log.fired = {1, 2}
  /\ spawned = <<1, 2>> /\ jobs = <<>>
  /\ CRON_STATE[1] > clock /\ CRON_STATE[2] > clock

\* The tokens of the input: its items between separators, without the
\* quotes around them, the empty ones left out
Tokens(str) ==
  LET items == SplitOn(StripOf(str, Whitespace), <<>>, <<>>)
      bare == [k \in DOMAIN items |-> StripOf(items[k], Quotes)]
  IN SelectSeq(bare, LAMBDA tok : tok # <<>>)

\* A token is a target: a host name, a dotted quad, or an IPv6 address with
\* or without brackets (__selftest__ expects 2001:db8::1 to be kept), after
\* an optional http:// or https:// and before an optional port.
IsTarget(tok) ==
  LET a == IF tok # <<>> /\ Head(tok) \in Schemes THEN Tail(tok) ELSE tok
      b == IF a # <<>> /\ a[Len(a)] \in Ports
           THEN SubSeq(a, 1, Len(a) - 1) ELSE a
  IN /\ b # <<>>
     /\ \/ \A p \in DOMAIN b : b[p] \in NamePieces
        \/ Len(b) = 1 /\ b[1] \in Bracketed \cup V6Bare

\* The position of the first occurrence of tok among the tokens toks
FirstAt(toks, tok) ==
  CHOOSE p \in DOMAIN toks :
    toks[p] = tok /\ \A q \in 1..(p - 1) : toks[q] # tok

\* C32: normalize_targets returns every token of its input that is a
\* target and nothing else, each once, in the order of first occurrence,
\* and at most 1024 of them; three copies of one target give that target
\* once.
C32_NormalizeTargets ==
  parsed # <<>> =>
    LET out == parsed[1]
        toks == Tokens(raw)
    IN /\ \A p \in DOMAIN toks :
            IsTarget(toks[p]) => \E q \in DOMAIN out : out[q] = toks[p]
       /\ \A q \in DOMAIN out :
            IsTarget(out[q]) /\ \E p \in DOMAIN toks : toks[p] = out[q]
       /\ \A q, r \in DOMAIN out :
            q < r => /\ out[q] # out[r]
                     /\ FirstAt(toks, out[q]) < FirstAt(toks, out[r])
       /\ Len(out) <= 1024
       /\ raw = DedupeRaw => out = <<<<"test.com">>>>

\* The workers that hold a permit: inside "async with sem", or woken with
\* the permit release() handed to them
Holders == {i \in Targets : wst[i] \in {"running", "woken"}}
\* The sentinels pushed so far: those the merger counted and those queued
SentinelsPushed == finished + SentinelsQueued

\* C33: in every state of a job the workers holding a permit and the free
\* permits add up to N, with 0 <= free <= N; the sentinels pushed are one
\* for each worker that has left, never more than the targets; and a worker
\* leaves, whether run_for_target returned or raised, in a step that pushes
\* exactly one sentinel, as the last thing on the queue, having held a
\* permit in that step, and gives the permit back to the counter or to the
\* first sleeping waiter.
C33_PermitsAndSentinels ==
  /\ [](JobStarted /\ pc # "started" =>
          /\ Cardinality(Holders) + sem.value = concurrency
          /\ sem.value >= 0 /\ sem.value <= concurrency
          /\ SentinelsPushed = Cardinality({i \in Targets : wst[i] = "done"})
          /\ SentinelsPushed <= Len(targets))
  /\ [][/\ \A i \in Targets :
             wst[i] # "done" /\ wst'[i] = "done" =>
               /\ wph'[i] \in {"end", "raised"}
               /\ i \in Holders \/ (wst[i] = "created" /\ sem.value > 0)
               /\ queue' # <<>> /\ queue'[Len(queue')] = Sentinel
               /\ SentinelsPushed' = SentinelsPushed + 1
               /\ IsPrefix(queue, queue')
               /\ \/ sem'.value = sem.value + 1 /\ Holders' = Holders \ {i}
                  \/ /\ sem'.value = sem.value
                     /\ \E j \in Targets \ {i} :
                          /\ wst[j] = "waiting" /\ wst'[j] = "woken"
                          /\ Holders' = (Holders \ {i}) \cup {j}
                  \/ /\ wst[i] = "created" /\ sem'.value = sem.value
                     /\ Holders' = Holders
       /\ (\A i \in Targets : wst'[i] = "done" <=> wst[i] = "done")
            => SentinelsPushed' = SentinelsPushed]_vars

\* C33 witness: one worker left after run_for_target raised, the other after
\* it returned; both sentinels are pushed and both permits are free again.
C33_Witness ==
  /\ JobStarted /\ Len(targets) = 2 /\ concurrency = 2
  /\ \E i, j \in Targets :
       /\ wst[i] = "done" /\ wph[i] = "raised"
       /\ wst[j] = "done" /\ wph[j] = "end"
  /\ SentinelsPushed = 2 /\ sem.value = 2

\* The summary of no finding: every count and the risk score are 0
NoFindings(sm) ==
  /\ sm.nuclei_findings = 0
  /\ \A k \in Severities : sm.severity[k] = 0
  /\ sm.risk_score = 0

\* C34: a job of a scan with no target has no worker and never waits on
\* the queue: after the header the merge loop is over at once, the next
\* step of the generator is always ready, the job row goes from Running to
\* Finished with the summary of no finding, and the stream that ends is the
\* header chunk followed by the completion chunk.
C34_NoTargets ==
  /\ [](JobStarted /\ Len(targets) = 0 =>
          /\ Targets = {} /\ queue = <<>> /\ finished = 0
          /\ nuclei_jsonl = <<>> /\ wps_json = <<>>
          /\ pc \in {"started", "merging", "finalized", "done"}
          /\ pc = "started" => ENABLED SpawnWorkers
          /\ pc = "merging" => ENABLED Finalize /\ ~ENABLED MergerGet
          /\ pc = "finalized" => ENABLED EmitComplete
          /\ pc \in {"started", "merging"} =>
               feed = <<JobHeader>> /\ jobs[job_id].status = "running"
          /\ pc \in {"finalized", "done"} =>
               /\ JobFinished
               /\ jobs[job_id].finished_at # NULL
               /\ jobs[job_id].summary # <<>>
               /\ NoFindings(jobs[job_id].summary[1])
          /\ pc = "finalized" => feed = <<JobHeader>>
          /\ pc = "done" => feed = <<JobHeader, JobComplete>>)
  /\ [][JobStarted /\ Len(targets) = 0 /\ jobs' # jobs =>
          /\ pc = "merging" /\ pc' = "finalized"
          /\ jobs[job_id].status = "running"
          /\ jobs'[job_id].status = "finished"]_vars

\* C34 witness: the stream of a job without targets has ended.
C34_Witness ==
  /\ JobStarted /\ Len(targets) = 0 /\ pc = "done"
  /\ feed = <<JobHeader, JobComplete>> /\ JobFinished

\* The stream was consumed past the last sentinel: every sentinel is
\* counted and every chunk the workers pushed was yielded
ConsumedPastLast ==
  /\ finished = Len(targets)
  /\ \A t \in Targets : OfTarget(feed, t) = produced[t]

\* C35: the job row is Finished only when the stream was consumed past the
\* last sentinel.  When the client stops reading before that, the row stays
\* Running without finished_at and summary and nothing is yielded any more,
\* while the workers are left as they were: each of them can take its next
\* step, and the steps they take still put chunks and write job.log and
\* nuclei.jsonl.
C35_FinishedNeedsConsumer ==
  /\ [](JobStarted =>
          /\ JobFinished => ConsumedPastLast
          /\ pc = "cancelled" /\ ~ConsumedPastLast =>
               /\ jobs[job_id].status = "running"
               /\ jobs[job_id].finished_at = NULL
               /\ jobs[job_id].summary = <<>>
          /\ pc = "cancelled" =>
               \A i \in Targets :
                 /\ (wst[i] = "created" /\ \A j \in 1..(i - 1) : wst[j] # "created")
                      => ENABLED WorkerStart(i)
                 /\ wst[i] = "woken" => ENABLED WorkerResume(i)
                 /\ Reading(i) => ENABLED ReadEOF(i))
  /\ [][/\ pc = "cancelled" =>
             /\ pc' = "cancelled" /\ jobs' = jobs /\ feed' = feed
             /\ finished' = finished /\ summary' = summary
             /\ IsPrefix(queue, queue') /\ IsPrefix(nuclei_jsonl, nuclei_jsonl')
             /\ Len(log') >= Len(log)
        /\ pc # "cancelled" /\ pc' = "cancelled" =>
             /\ wst' = wst /\ wph' = wph /\ wtool' = wtool /\ sem' = sem
             /\ queue' = queue /\ log' = log /\ kills' = kills]_vars

\* C35 witness: the client left before any chunk of a target was read; both
\* workers went through their tools all the same, a finding is in
\* nuclei.jsonl, the queue holds what they pushed and the row is Running.
C35_Witness ==
  /\ pc = "cancelled" /\ Len(targets) = 2 /\ AllDone
  /\ feed = <<JobHeader>> /\ finished = 0
  /\ nuclei_jsonl # <<>> /\ SentinelsQueued = 2
  /\ jobs[job_id].status = "running" /\ jobs[job_id].finished_at = NULL

\* A job of scan sid is Finished and none is Running, in a state where the
\* scheduler sleeps with scheduling enabled after a tick that did not fail
\* and the cached time of the scan is a time of the ticks still to come
Resumable(sid) ==
  /\ sched_pc = "sleep" /\ ~disabled /\ ~tick_log.error /\ clock < MaxNow
  /\ sid \in DOMAIN scans /\ Valid(scans[sid])
  /\ CRON_STATE[sid] # NULL /\ CRON_STATE[sid] <= MaxNow
  /\ \E j \in DOMAIN jobs : jobs[j].scan_id = sid /\ jobs[j].status = "finished"
  /\ RunningJobs(sid) = {}

\* The Running jobs of scan sid that were started by `by`
RunningBy(sid, by) == {j \in RunningJobs(sid) : origin[j] = by}

\* C36: scheduling resumes after a job finishes.  A tick that examines a
\* scan with a valid cron expression fires it exactly when its cached time
\* is due and none of its jobs is Running, so the first such tick does; a
\* skipped or fired scan has its next cached time within one period after
\* now; the job a created task inserts is a Running job of the fired scan;
\* and from every state in which a job of the scan has finished, none is
\* Running and the scheduler is enabled, a job started by the scheduler is
\* Running later on, unless before that a run requested by hand is Running,
\* scheduling is disabled or a tick is ended by an error.
C36_SchedulingResumes ==
  /\ \A sid \in ScanIds :
       Resumable(sid) ~>
          \/ RunningBy(sid, "scheduler") # {}
          \/ RunningBy(sid, "manual") # {} \/ disabled \/ tick_log.error
  /\ [][IsTick =>
          \A sid \in tick_log'.examined :
            Valid(scans[sid]) =>
              /\ sid \in tick_log'.fired <=>
                   /\ CRON_STATE[sid] # NULL /\ CRON_STATE[sid] <= clock'
                   /\ RunningJobs(sid) = {}
              /\ sid \in tick_log'.fired <=>
                   \E q \in DOMAIN spawned' : spawned'[q] = sid
              /\ CRON_STATE'[sid] > clock'
              /\ CRON_STATE'[sid] <= clock' + scans[sid]]_vars
  /\ [][\A j \in NewJobs :
          origin'[j] = "scheduler" =>
            /\ spawned # <<>> /\ jobs'[j].scan_id = Head(spawned)
            /\ jobs'[j].status = "running"]_vars

\* C36 witness: scan 1 was skipped while its job was Running, the job has
\* finished, and a later tick has fired the scan again: its second job, made
\* by the scheduler, is Running.
C36_Witness ==
  /\ Len(jobs) >= 2 /\ 1 \in DOMAIN scans
  /\ jobs[1].scan_id = 1 /\ jobs[1].status = "finished"
  /\ origin[1] = "scheduler"
  /\ \E j \in DOMAIN jobs :
       /\ j > 1 /\ jobs[j].scan_id = 1 /\ jobs[j].status = "running"
       /\ origin[j] = "scheduler"
       /\ jobs[j].started_at > jobs[1].finished_at
       /\ jobs[1].finished_at > jobs[1].started_at

\* The scans behind the one at which a tick ended with an error: the rows
\* with a cron expression that come after a row with a cron expression the
\* tick did not examine to its end
BehindFailure(lg) ==
  {sid \in DOMAIN scans :
     /\ scans[sid] # NULL
     /\ \E k \in 1..(sid - 1) : scans[k] # NULL /\ k \notin lg.examined}

\* C37: a tick that is ended by a failure while it processes a scan leaves
\* the scans behind that scan alone: they are not examined, no task is
\* created for them and their cached times are as before the tick, also
\* when they are due with no job Running; the tasks created and the cache
\* entries written for the scans before it stay, the jobs table is not
\* touched and the loop is back at its sleep.
C37_FailureEndsTick ==
  [][IsTick /\ tick_log'.error =>
       /\ \A sid \in BehindFailure(tick_log') :
            /\ sid \notin tick_log'.examined
            /\ \A q \in DOMAIN spawned' : spawned'[q] # sid
            /\ CRON_STATE'[sid] = CRON_STATE[sid]
       /\ \A sid \in tick_log'.fired :
            /\ \E q \in DOMAIN spawned' : spawned'[q] = sid
            /\ CRON_STATE'[sid] > clock'
       /\ jobs' = jobs /\ sched_pc' = "sleep"]_vars

\* C37 witness: the query for a Running job of scan 1 raised in the last
\* tick; scan 2 behind it is due with no job Running, and it was neither
\* fired nor was its cached time moved.
C37_Witness ==
  /\ tick_log.error /\ tick_log.now = clock /\ Len(scans) = 2
  /\ scans[1] # NULL /\ CRON_STATE[1] # NULL /\ CRON_STATE[1] <= clock
  /\ 1 \notin tick_log.examined
  /\ 2 \in BehindFailure(tick_log)
  /\ CRON_STATE[2] # NULL /\ CRON_STATE[2] <= clock /\ RunningJobs(2) = {}
  /\ spawned = <<>>

\* The scans stored with a cron expression croniter cannot evaluate
BadScans == {sid \in DOMAIN scans : scans[sid] = BadCron}

\* C38: a scan whose cron expression cannot be evaluated has no cache entry
\* at any time and is never fired: no task and no job of the scheduler is
\* ever made for it.  Adding such a scan leaves the whole cache as it is; a
\* tick passes it without raising, so a tick that examined a row is never
\* ended at such a scan, and in a tick that is not ended by an error every
\* row with a cron expression is examined, the valid ones behind a bad one
\* included: they are fired exactly when due with no job Running and their
\* cached times are after now.
C38_BadCronNeverFired ==
  /\ [](\A sid \in BadScans :
          /\ CRON_STATE[sid] = NULL
          /\ \A q \in DOMAIN spawned : spawned[q] # sid
          /\ \A j \in DOMAIN jobs :
               jobs[j].scan_id = sid => origin[j] # "scheduler")
  /\ [][/\ scans' # scans /\ scans'[Len(scans')] = BadCron =>
             CRON_STATE' = CRON_STATE
        /\ IsTick /\ ~tick_log'.disabled /\ tick_log'.examined # {} =>
             \A sid \in BadScans :
               (\A k \in 1..(sid - 1) :
                  scans[k] # NULL => k \in tick_log'.examined)
                 => sid \in tick_log'.examined
        /\ IsTick /\ ~tick_log'.disabled /\ ~tick_log'.error =>
             \A sid \in DOMAIN scans :
               scans[sid] # NULL =>
                 /\ sid \in tick_log'.examined
                 /\ sid \in BadScans =>
                      sid \notin tick_log'.fired \cup tick_log'.skipped
                 /\ Valid(scans[sid]) =>
                      /\ CRON_STATE'[sid] > clock'
                      /\ sid \in tick_log'.fired <=>
                           /\ CRON_STATE[sid] # NULL
                           /\ CRON_STATE[sid] <= clock'
                           /\ RunningJobs(sid) = {}]_vars

\* C38 witness: the last tick passed scan 1, whose expression cannot be
\* evaluated, and fired scan 2 behind it; scan 1 has no cache entry.
C38_Witness ==
  /\ tick_log.now = clock /\ ~tick_log.error /\ Len(scans) = 2
  /\ scans[1] = BadCron /\ 1 \in tick_log.examined
  /\ CRON_STATE[1] = NULL
  /\ 2 \in tick_log.fired /\ spawned = <<2>>

\* The severity a finding states, under info first, and the findings that
\* state none or one that is no key of RISK_WEIGHTS in lower case
Stated(r) == IF r.info_severity # "" THEN r.info_severity ELSE r.severity
NoSeverity(r) == Stated(r) = ""
Unrecognised(r) == ~NoSeverity(r) /\ Lower(Stated(r)) \notin Severities
SevTotal(sm) ==
  sm.severity.critical + sm.severity.high + sm.severity.medium
    + sm.severity.low + sm.severity.info

\* C39: in every summary each of the five severity counts is at least 0 and
\* their sum is at most nuclei_findings, equal to it exactly when no finding
\* has an unrecognised severity: the sum falls short by the number of such
\* findings.  A finding without severity is counted as info, and the
\* findings with an unrecognised severity add nothing to the risk score:
\* the list without them has the same counts and score.
C39_SeverityCounts ==
  result # <<>> =>
    LET sm == result[1]
        odd == {i \in DOMAIN findings : Unrecognised(findings[i])}
        rest == SelectSeq(findings, LAMBDA r : ~Unrecognised(r))
    IN /\ \A k \in Severities : sm.severity[k] >= 0
       /\ SevTotal(sm) <= sm.nuclei_findings
       /\ SevTotal(sm) = sm.nuclei_findings <=> odd = {}
       /\ sm.nuclei_findings = Len(findings)
       /\ sm.nuclei_findings - SevTotal(sm) = Cardinality(odd)
       /\ sm.severity.info =
            Cardinality({i \in DOMAIN findings :
                           \/ NoSeverity(findings[i])
                           \/ Lower(Stated(findings[i])) = "info"})
       /\ sm.severity = summarize_from_findings(rest).severity
       /\ sm.risk_score = summarize_from_findings(rest).risk_score

\* C39 witness: the summary of a critical finding, a finding without
\* severity and one of severity "unknown": three findings, two counted, one
\* of them as info, score 9.
C39_Witness ==
  /\ result # <<>>
  /\ findings = <<Obj("critical", ""), Obj("", ""), Obj("unknown", "")>>
  /\ result[1].nuclei_findings = 3 /\ SevTotal(result[1]) = 2
  /\ result[1].severity.info = 1 /\ result[1].risk_score = 9

====
